---- MODULE Spec2Model ----
(***************************************************************************)
(* Model of the ZMK keymap formatter, scripts/zmk_format.py.               *)
(*                                                                         *)
(* Text is a sequence of tokens.  A token is one character, except that    *)
(* the keywords the formatter searches for ("ZMK_LAYER", "#define", ...)   *)
(* are single tokens whose length is their number of characters.  The      *)
(* newline is the token "\n"; a file is the token sequence of its text and *)
(* split_lines models str.split('\n').                                     *)
(***************************************************************************)
EXTENDS Integers, Sequences, FiniteSets, TLC

(***************************************************************************)
(* Character classes and string primitives of Python used by the code.     *)
(***************************************************************************)
NL == "\n"

\* characters removed by str.strip()/str.rstrip() and matched by \s
WS == {" ", "\t", NL}

\* characters that are not matched by \w
NonWord == WS \cup {"(", ")", "{", "}", ",", ";", "&", "<", ">", "\\", "/", "#define"}

IsWord(t) == t \notin NonWord

\* [A-Z_] and [A-Z0-9_] of the #define pattern
UpperToks == {"A", "B", "M", "X", "Y", "_", "ZMK_LAYER", "ZMK_BEHAVIOR",
              "ZMK_HOLD_TAP", "ZMK_TAP_DANCE", "ZMK_MACRO"}

DigitToks == {"0", "1", "2", "3", "4", "5", "6", "7", "8", "9"}

Min(S) == CHOOSE x \in S : \A y \in S : x <= y

Max(S) == CHOOSE x \in S : \A y \in S : y <= x

\* the n-th smallest element of the set K of positions
Nth(K, n) == CHOOSE p \in K : Cardinality({q \in K : q <= p}) = n

\* len() of a text: the number of its characters, summed by halves
RECURSIVE str_len(_)
str_len(s) ==
    IF s = <<>> THEN 0
    ELSE IF Len(s) = 1 THEN Len(s[1])
    ELSE str_len(SubSeq(s, 1, Len(s) \div 2))
           + str_len(SubSeq(s, Len(s) \div 2 + 1, Len(s)))

\* the positions of s that hold no whitespace
Inked(s) == {k \in 1..Len(s) : s[k] \notin WS}

lstrip(s) == IF Inked(s) = {} THEN <<>> ELSE SubSeq(s, Min(Inked(s)), Len(s))

rstrip(s) == IF Inked(s) = {} THEN <<>> ELSE SubSeq(s, 1, Max(Inked(s)))

strip(s) == lstrip(rstrip(s))

\* s[i:].startswith(p), with i counted from 1
startswith_at(s, i, p) ==
    /\ i + Len(p) - 1 <= Len(s)
    /\ \A k \in 1..Len(p) : s[i + k - 1] = p[k]

startswith(s, p) == startswith_at(s, 1, p)

endswith(s, t) == s # <<>> /\ s[Len(s)] = t

\* s.count(t)
count(s, t) == Cardinality({k \in 1..Len(s) : s[k] = t})

\* " " * n
spaces(n) == [k \in 1..n |-> " "]

\* key.ljust(width)
ljust(s, width) == s \o spaces(width - str_len(s))

\* sep.join(parts), joined by halves
RECURSIVE join(_, _)
join(sep, parts) ==
    IF parts = <<>> THEN <<>>
    ELSE IF Len(parts) = 1 THEN parts[1]
    ELSE join(sep, SubSeq(parts, 1, Len(parts) \div 2)) \o sep
           \o join(sep, SubSeq(parts, Len(parts) \div 2 + 1, Len(parts)))

\* s.split('\n'): the texts between the newlines, always at least one line
split_lines(s) ==
    LET nls == {k \in 1..Len(s) : s[k] = NL}
        from(n) == IF n = 1 THEN 1 ELSE Nth(nls, n - 1) + 1
        to(n) == IF n = Cardinality(nls) + 1 THEN Len(s) ELSE Nth(nls, n) - 1
    IN  [n \in 1..(Cardinality(nls) + 1) |-> SubSeq(s, from(n), to(n))]

\* first position >= k of s that holds no character of class cls (Len(s)+1
\* if there is none): the end of a greedy cls*
skip_class(s, k, cls) ==
    LET stops == {j \in k..Len(s) : s[j] \notin cls}
    IN  IF k > Len(s) THEN k
        ELSE IF stops = {} THEN Len(s) + 1
        ELSE Min(stops)

\* the end of a greedy \s*
skip_ws(s, k) == skip_class(s, k, WS)

\* the end of a greedy \w*
skip_word(s, k) ==
    LET stops == {j \in k..Len(s) : ~IsWord(s[j])}
    IN  IF k > Len(s) THEN k
        ELSE IF stops = {} THEN Len(s) + 1
        ELSE Min(stops)

\* position of the last occurrence of t in s, 0 if there is none
last_index(s, t) ==
    IF \E k \in 1..Len(s) : s[k] = t
    THEN CHOOSE k \in 1..Len(s) : s[k] = t /\ \A j \in (k + 1)..Len(s) : s[j] # t
    ELSE 0

\* a missing text (None where the code returns a str or None)
None == <<"None">>

\* a failed match or parse (None where the code returns a match or a tuple)
NoMatch == [ok |-> FALSE]

\* global_width=None: an optional width is <<>> or <<w>>
NoWidth == <<>>

(***************************************************************************)
(* extract_key_macros: names NAME of the directives "#define NAME &...".   *)
(***************************************************************************)
\* the name matched by  #define\s+([A-Z_][A-Z0-9_]*)\s+&  at position k, or None
define_name_at(s, k) ==
    IF k > Len(s) \/ s[k] # "#define" THEN None
    ELSE LET a == skip_ws(s, k + 1)
             b == IF a <= Len(s) /\ s[a] \in UpperToks
                  THEN skip_class(s, a + 1, UpperToks \cup DigitToks) ELSE a
             c == skip_ws(s, b)
         IN  IF a > k + 1 /\ b > a /\ c > b /\ c <= Len(s) /\ s[c] = "&"
             THEN SubSeq(s, a, b - 1) ELSE None

\* re.search(r'#define\s+NAME\s+&rest', content) for a fixed NAME and rest
has_define(s, name, rest) ==
    \E k \in 1..Len(s) :
        /\ s[k] = "#define"
        /\ LET a == skip_ws(s, k + 1)
               c == skip_ws(s, a + Len(name))
           IN  /\ a > k + 1
               /\ startswith_at(s, a, name)
               /\ c > a + Len(name)
               /\ startswith_at(s, c, <<"&">> \o rest)

XXX == <<"X", "X", "X">>
UUU == <<"_", "_", "_">>

extract_key_macros(s) ==
    ({define_name_at(s, k) : k \in 1..Len(s)} \ {None})
      \cup (IF has_define(s, XXX, <<"n", "o", "n", "e">>) THEN {XXX} ELSE {})
      \cup (IF has_define(s, UUU, <<"t", "r", "a", "n", "s">>) THEN {UUU} ELSE {})

(***************************************************************************)
(* parse_zmk_layer: the name and the bindings of one layer invocation.     *)
(***************************************************************************)
\* the macro of key_macros that starts at position k of s, whatever follows
macro_at_no_boundary(s, k, key_macros) ==
    LET hits == {m \in key_macros : startswith_at(s, k, m)}
    IN  IF hits = {} THEN None ELSE CHOOSE m \in hits : TRUE

\* the macro of key_macros that starts at position k of s and is followed by
\* whitespace or the end of s, or None
macro_at(s, k, key_macros) ==
    LET hits == {m \in key_macros :
                    /\ startswith_at(s, k, m)
                    /\ (k + Len(m) > Len(s) \/ s[k + Len(m)] \in {" ", "\t", NL})}
    IN  IF hits = {} THEN None ELSE CHOOSE m \in hits : TRUE

\* the state of the tokenizer loop before its first iteration; pos is i + 1
TokenizeStart == [pos |-> 1, current |-> <<>>, paren_depth |-> 0, bindings |-> <<>>]

\* bindings.append(current.strip()) if current.strip()
flush(st) ==
    IF strip(st.current) # <<>> THEN Append(st.bindings, strip(st.current))
    ELSE st.bindings

\* one iteration with an '&' branch that does not test paren_depth
tokenize_step_amp_any_depth(s, k, st, key_macros) ==
    IF st.pos # k THEN st
    ELSE IF s[k] = "&" THEN
        [st EXCEPT !.pos = k + 1, !.current = <<"&">>, !.bindings = flush(st)]
    ELSE IF s[k] = "(" THEN
        [st EXCEPT !.pos = k + 1, !.current = Append(st.current, s[k]),
                   !.paren_depth = st.paren_depth + 1]
    ELSE IF s[k] = ")" THEN
        [st EXCEPT !.pos = k + 1, !.current = Append(st.current, s[k]),
                   !.paren_depth = st.paren_depth - 1]
    ELSE IF st.paren_depth = 0 /\ macro_at(s, k, key_macros) # None THEN
        [st EXCEPT !.pos = k + Len(macro_at(s, k, key_macros)),
                   !.current = macro_at(s, k, key_macros), !.bindings = flush(st)]
    ELSE
        [st EXCEPT !.pos = k + 1, !.current = Append(st.current, s[k])]

\* one iteration whose macro branch replaces current without appending it
\* to bindings first
tokenize_step_macro_drops_current(s, k, st, key_macros) ==
    IF st.pos # k THEN st
    ELSE IF s[k] = "(" THEN
        [st EXCEPT !.pos = k + 1, !.current = Append(st.current, s[k]),
                   !.paren_depth = st.paren_depth + 1]
    ELSE IF s[k] = ")" THEN
        [st EXCEPT !.pos = k + 1, !.current = Append(st.current, s[k]),
                   !.paren_depth = st.paren_depth - 1]
    ELSE IF s[k] = "&" /\ st.paren_depth = 0 THEN
        [st EXCEPT !.pos = k + 1, !.current = <<"&">>, !.bindings = flush(st)]
    ELSE IF st.paren_depth = 0 /\ macro_at(s, k, key_macros) # None THEN
        [st EXCEPT !.pos = k + Len(macro_at(s, k, key_macros)),
                   !.current = macro_at(s, k, key_macros)]
    ELSE
        [st EXCEPT !.pos = k + 1, !.current = Append(st.current, s[k])]

\* one iteration whose macro branch leaves the position where it is
tokenize_step_macro_stays(s, k, st, key_macros) ==
    IF st.pos # k THEN st
    ELSE IF s[k] = "(" THEN
        [st EXCEPT !.pos = k + 1, !.current = Append(st.current, s[k]),
                   !.paren_depth = st.paren_depth + 1]
    ELSE IF s[k] = ")" THEN
        [st EXCEPT !.pos = k + 1, !.current = Append(st.current, s[k]),
                   !.paren_depth = st.paren_depth - 1]
    ELSE IF s[k] = "&" /\ st.paren_depth = 0 THEN
        [st EXCEPT !.pos = k + 1, !.current = <<"&">>, !.bindings = flush(st)]
    ELSE IF st.paren_depth = 0 /\ macro_at(s, k, key_macros) # None THEN
        [st EXCEPT !.current = macro_at(s, k, key_macros), !.bindings = flush(st)]
    ELSE
        [st EXCEPT !.pos = k + 1, !.current = Append(st.current, s[k])]

\* one iteration of the tokenizer loop at position k; a position that an
\* earlier iteration has jumped over (a matched macro) is not visited
tokenize_step(s, k, st, key_macros) ==
    IF st.pos # k THEN st
    ELSE IF s[k] = "(" THEN
        [st EXCEPT !.pos = k + 1, !.current = Append(st.current, s[k]),
                   !.paren_depth = st.paren_depth + 1]
    ELSE IF s[k] = ")" THEN
        [st EXCEPT !.pos = k + 1, !.current = Append(st.current, s[k]),
                   !.paren_depth = st.paren_depth - 1]
    ELSE IF s[k] = "&" /\ st.paren_depth = 0 THEN
        [st EXCEPT !.pos = k + 1, !.current = <<"&">>, !.bindings = flush(st)]
    ELSE IF st.paren_depth = 0 /\ macro_at(s, k, key_macros) # None THEN
        [st EXCEPT !.pos = k + Len(macro_at(s, k, key_macros)),
                   !.current = macro_at(s, k, key_macros), !.bindings = flush(st)]
    ELSE
        [st EXCEPT !.pos = k + 1, !.current = Append(st.current, s[k])]

\* the iterations at positions lo..hi in order: those of the first half of
\* the range, then from the state they leave those of the second half
RECURSIVE tokenize_loop(_, _, _, _, _)
tokenize_loop(s, lo, hi, st, key_macros) ==
    IF lo > hi THEN st
    ELSE IF lo = hi THEN tokenize_step(s, lo, st, key_macros)
    ELSE LET mid == (lo + hi) \div 2
         IN  CHOOSE final \in {tokenize_loop(s, mid + 1, hi, half, key_macros) :
                                  half \in {tokenize_loop(s, lo, mid, st, key_macros)}} : TRUE

\* the whole loop and the final flush
tokenize(s, key_macros) == flush(tokenize_loop(s, 1, Len(s), TokenizeStart, key_macros))

\* re.match(r'ZMK_LAYER\s*\(\s*(\w+)\s*,(.+)\)', content, re.DOTALL):
\* NoMatch, or the record of the two groups
layer_match(s) ==
    IF s = <<>> \/ s[1] # "ZMK_LAYER" THEN NoMatch
    ELSE LET p1 == skip_ws(s, 2)
             p2 == skip_ws(s, p1 + 1)
             p3 == skip_word(s, p2)
             p4 == skip_ws(s, p3)
             close == last_index(s, ")")
         IN  IF /\ p1 <= Len(s) /\ s[p1] = "("
                /\ p3 > p2
                /\ p4 <= Len(s) /\ s[p4] = ","
                /\ close >= p4 + 2
             THEN [ok |-> TRUE, name |-> SubSeq(s, p2, p3 - 1),
                   rest |-> SubSeq(s, p4 + 1, close - 1)]
             ELSE NoMatch

parse_zmk_layer(s, key_macros) ==
    LET m == layer_match(s)
    IN  IF ~m.ok THEN NoMatch
        ELSE LET bindings_str == strip(m.rest)
             IN  [ok |-> TRUE, name |-> m.name,
                  bindings_str |-> bindings_str,
                  bindings |-> tokenize(bindings_str, key_macros)]

(***************************************************************************)
(* format_zmk_layer: the aligned grid of one layer.                        *)
(***************************************************************************)
BaseIndent == 4
ThumbColumn == 3

\* the rows without the final short row: range(0, len(bindings), cols)
\* replaced by range(len(bindings) // cols)
layer_rows_full_only(bindings, cols) ==
    [r \in 1..(Len(bindings) \div cols) |->
        SubSeq(bindings, (r - 1) * cols + 1, r * cols)]

\* rows = [bindings[i:i+cols] for i in range(0, len(bindings), cols)]
layer_rows(bindings, cols) ==
    [r \in 1..((Len(bindings) + cols - 1) \div cols) |->
        SubSeq(bindings, (r - 1) * cols + 1,
               IF r * cols < Len(bindings) THEN r * cols ELSE Len(bindings))]

\* the cells of one row with every key padded, the last one too
formatted_keys_all_padded(row, width) ==
    [j \in 1..Len(row) |-> ljust(row[j], width)]

\* the cells of one row: every key but the last is padded to the width
formatted_keys(row, width) ==
    [j \in 1..Len(row) |-> IF j = Len(row) THEN row[j] ELSE ljust(row[j], width)]

\* the thumb indent without the separating space of each skipped column
row_indent_no_separator(row, cols, width) ==
    IF Len(row) < cols THEN BaseIndent + ThumbColumn * width ELSE BaseIndent

\* the indent of a row: thumb rows (fewer than cols keys) are moved right
row_indent(row, cols, width) ==
    IF Len(row) < cols THEN BaseIndent + ThumbColumn * (width + 1) ELSE BaseIndent

formatted_row(row, cols, width) ==
    spaces(row_indent(row, cols, width)) \o join(<<" ">>, formatted_keys(row, width))

\* the width used: the argument, or the layer's own maximum when it is None
layer_width(bindings, global_width) ==
    IF global_width = NoWidth
    THEN (IF bindings = <<>> THEN 0
          ELSE Max({str_len(bindings[j]) : j \in 1..Len(bindings)}))
    ELSE global_width[1]

formatted_rows(bindings, cols, global_width) ==
    LET rows == layer_rows(bindings, cols)
    IN  [r \in 1..Len(rows) |->
            formatted_row(rows[r], cols, layer_width(bindings, global_width))]

format_zmk_layer(name, bindings, cols, global_width) ==
    <<"ZMK_LAYER", "(">> \o name \o <<",", NL>>
      \o join(<<NL>>, formatted_rows(bindings, cols, global_width))
      \o <<NL, ")">>

(***************************************************************************)
(* format_zmk_macro_block: ZMK_BEHAVIOR, ZMK_HOLD_TAP, ZMK_TAP_DANCE and   *)
(* ZMK_MACRO invocations, one property per line.                           *)
(***************************************************************************)
PropIndent == 4

\* the nesting depth before position k: '<' and '(' open, '>' and ')' close
depth_before(s, k) ==
    Cardinality({j \in 1..(k - 1) : s[j] \in {"<", "("}})
      - Cardinality({j \in 1..(k - 1) : s[j] \in {">", ")"}})

\* position of the first ',' outside <> and (), 0 if there is none
first_comma(s) ==
    LET hits == {k \in 1..Len(s) : s[k] = "," /\ depth_before(s, k) = 0}
    IN  IF hits = {} THEN 0 ELSE Min(hits)

\* a behavior type taken from the body of every macro kind
split_behavior_type_any_kind(macro_type, content) ==
    LET c == first_comma(content)
    IN  IF c > 1
        THEN [behavior_type |-> strip(SubSeq(content, 1, c - 1)),
              content |-> strip(SubSeq(content, c + 1, Len(content)))]
        ELSE [behavior_type |-> None, content |-> content]

\* the behavior type of a ZMK_BEHAVIOR body (None if absent) and the rest.
\* The code tests first_comma > 0 on a position counted from 0.
split_behavior_type(macro_type, content) ==
    LET c == IF macro_type = "ZMK_BEHAVIOR" THEN first_comma(content) ELSE 0
    IN  IF c > 1
        THEN [behavior_type |-> strip(SubSeq(content, 1, c - 1)),
              content |-> strip(SubSeq(content, c + 1, Len(content)))]
        ELSE [behavior_type |-> None, content |-> content]

\* a property that is closed by ';'
closed_props(props, cur) ==
    IF strip(cur) # <<>> THEN Append(props, Append(strip(cur), ";")) ELSE props

\* the text left after the last ';'
last_props(props, cur) ==
    LET prop == strip(cur)
    IN  IF prop = <<>> THEN props
        ELSE IF ~startswith(prop, <<"/", "/">>) /\ ~endswith(prop, ";")
        THEN Append(props, Append(prop, ";"))
        ELSE Append(props, prop)

\* the state of the property loop before its first iteration
PropertiesStart ==
    [current |-> <<>>, angle_depth |-> 0, paren_depth |-> 0, in_comment |-> FALSE,
     properties |-> <<>>]

\* one iteration with a ';' branch that does not test the two depths
properties_step_no_depth_test(s, k, st) ==
    IF ~st.in_comment /\ s[k] = "/" /\ k + 1 <= Len(s) /\ s[k + 1] = "/" THEN
        [st EXCEPT !.in_comment = TRUE, !.current = Append(st.current, s[k])]
    ELSE IF st.in_comment /\ s[k] = NL THEN
        [st EXCEPT !.in_comment = FALSE, !.current = Append(st.current, s[k])]
    ELSE IF st.in_comment THEN
        [st EXCEPT !.current = Append(st.current, s[k])]
    ELSE IF s[k] = "<" THEN
        [st EXCEPT !.angle_depth = st.angle_depth + 1, !.current = Append(st.current, s[k])]
    ELSE IF s[k] = ">" THEN
        [st EXCEPT !.angle_depth = st.angle_depth - 1, !.current = Append(st.current, s[k])]
    ELSE IF s[k] = "(" THEN
        [st EXCEPT !.paren_depth = st.paren_depth + 1, !.current = Append(st.current, s[k])]
    ELSE IF s[k] = ")" THEN
        [st EXCEPT !.paren_depth = st.paren_depth - 1, !.current = Append(st.current, s[k])]
    ELSE IF s[k] = ";" THEN
        [st EXCEPT !.current = <<>>,
                   !.properties = closed_props(st.properties, st.current)]
    ELSE
        [st EXCEPT !.current = Append(st.current, s[k])]

\* one iteration of the property loop at position k
properties_step(s, k, st) ==
    IF ~st.in_comment /\ s[k] = "/" /\ k + 1 <= Len(s) /\ s[k + 1] = "/" THEN
        [st EXCEPT !.in_comment = TRUE, !.current = Append(st.current, s[k])]
    ELSE IF st.in_comment /\ s[k] = NL THEN
        [st EXCEPT !.in_comment = FALSE, !.current = Append(st.current, s[k])]
    ELSE IF st.in_comment THEN
        [st EXCEPT !.current = Append(st.current, s[k])]
    ELSE IF s[k] = "<" THEN
        [st EXCEPT !.angle_depth = st.angle_depth + 1, !.current = Append(st.current, s[k])]
    ELSE IF s[k] = ">" THEN
        [st EXCEPT !.angle_depth = st.angle_depth - 1, !.current = Append(st.current, s[k])]
    ELSE IF s[k] = "(" THEN
        [st EXCEPT !.paren_depth = st.paren_depth + 1, !.current = Append(st.current, s[k])]
    ELSE IF s[k] = ")" THEN
        [st EXCEPT !.paren_depth = st.paren_depth - 1, !.current = Append(st.current, s[k])]
    ELSE IF s[k] = ";" /\ st.angle_depth = 0 /\ st.paren_depth = 0 THEN
        [st EXCEPT !.current = <<>>,
                   !.properties = closed_props(st.properties, st.current)]
    ELSE
        [st EXCEPT !.current = Append(st.current, s[k])]

\* the iterations at positions lo..hi in order: those of the first half of
\* the range, then from the state they leave those of the second half
RECURSIVE properties_loop(_, _, _, _)
properties_loop(s, lo, hi, st) ==
    IF lo > hi THEN st
    ELSE IF lo = hi THEN properties_step(s, lo, st)
    ELSE LET mid == (lo + hi) \div 2
         IN  CHOOSE final \in {properties_loop(s, mid + 1, hi, half) :
                                  half \in {properties_loop(s, lo, mid, st)}} : TRUE

\* the whole loop and the text left after the last ';'
split_properties(s) ==
    LET st == properties_loop(s, 1, Len(s), PropertiesStart)
    IN  last_props(st.properties, st.current)

\* every line of a property stripped, continuation lines joined back
normalize_prop(prop) ==
    LET ls == split_lines(prop)
    IN  join(<<NL>> \o spaces(PropIndent), [j \in 1..Len(ls) |-> strip(ls[j])])

formatted_props(props) ==
    join(<<NL>>, [j \in 1..Len(props) |-> spaces(PropIndent) \o normalize_prop(props[j])])

\* the block without the single-line fallback for an empty property list
format_zmk_macro_block_no_fallback(macro_type, name, content0) ==
    LET b == split_behavior_type(macro_type, strip(content0))
        properties == split_properties(b.content)
    IN  IF b.behavior_type # None
        THEN <<macro_type, "(">> \o name \o <<",", " ">> \o b.behavior_type \o <<",", NL>>
               \o formatted_props(properties) \o <<NL, ")">>
        ELSE <<macro_type, "(">> \o name \o <<",", NL>>
               \o formatted_props(properties) \o <<NL, ")">>

format_zmk_macro_block(macro_type, name, content0) ==
    LET b == split_behavior_type(macro_type, strip(content0))
        properties == split_properties(b.content)
    IN  IF properties = <<>> /\ b.behavior_type = None
        THEN <<macro_type, "(">> \o name \o <<",", " ">> \o b.content \o <<")">>
        ELSE IF b.behavior_type # None
        THEN <<macro_type, "(">> \o name \o <<",", " ">> \o b.behavior_type \o <<",", NL>>
               \o formatted_props(properties) \o <<NL, ")">>
        ELSE <<macro_type, "(">> \o name \o <<",", NL>>
               \o formatted_props(properties) \o <<NL, ")">>

(***************************************************************************)
(* format_devicetree_node: trailing whitespace of every line removed.      *)
(***************************************************************************)
\* the node with its middle lines stripped on both sides
format_devicetree_node_strip_middle(content) ==
    LET ls == split_lines(content)
        first == <<rstrip(ls[1])>>
        middle == IF Len(ls) > 2 THEN [j \in 1..(Len(ls) - 2) |-> strip(ls[j + 1])]
                  ELSE <<>>
        last == IF Len(ls) > 1 THEN <<rstrip(ls[Len(ls)])>> ELSE <<>>
    IN  join(<<NL>>, first \o middle \o last)

format_devicetree_node(content) ==
    LET ls == split_lines(content)
        first == <<rstrip(ls[1])>>
        middle == IF Len(ls) > 2 THEN [j \in 1..(Len(ls) - 2) |-> rstrip(ls[j + 1])]
                  ELSE <<>>
        last == IF Len(ls) > 1 THEN <<rstrip(ls[Len(ls)])>> ELSE <<>>
    IN  join(<<NL>>, first \o middle \o last)

(***************************************************************************)
(* Region detection on lines.  Line numbers count from 0 as in the code;   *)
(* line n of ls is ls[n + 1].                                              *)
(***************************************************************************)
\* line.rstrip().endswith('\\')
ends_with_backslash(line) == endswith(rstrip(line), "\\")

\* stripped.startswith('#define') and line.rstrip().endswith('\\')
is_define_start(line) == startswith(strip(line), <<"#define">>) /\ ends_with_backslash(line)

\* stripped.startswith('ZMK_LAYER(')
is_layer_start(line) == startswith(strip(line), <<"ZMK_LAYER", "(">>)

BlockMacros == {"ZMK_BEHAVIOR", "ZMK_HOLD_TAP", "ZMK_TAP_DANCE", "ZMK_MACRO"}

\* re.match(r'(ZMK_BEHAVIOR|...)\s*\(\s*(\w+)\s*,', stripped), matched at
\* position k of s: NoMatch or the macro type and name
block_match_at(s, k) ==
    IF k > Len(s) \/ s[k] \notin BlockMacros THEN NoMatch
    ELSE LET p1 == skip_ws(s, k + 1)
             p2 == skip_ws(s, p1 + 1)
             p3 == skip_word(s, p2)
             p4 == skip_ws(s, p3)
         IN  IF /\ p1 <= Len(s) /\ s[p1] = "("
                /\ p3 > p2
                /\ p4 <= Len(s) /\ s[p4] = ","
             THEN [ok |-> TRUE, macro_type |-> s[k], macro_name |-> SubSeq(s, p2, p3 - 1),
                   comma |-> p4]
             ELSE NoMatch

macro_match(line) == block_match_at(strip(line), 1)

\* re.search(rf'{macro_type}\s*\(\s*{macro_name}\s*,(.+)\)', macro_content,
\* re.DOTALL): NoMatch or group 1 of the leftmost match
full_match(s, macro_type, macro_name) ==
    LET close == last_index(s, ")")
        hit(k) == LET m == block_match_at(s, k)
                  IN  /\ m.ok
                      /\ m.macro_type = macro_type
                      /\ m.macro_name = macro_name
                      /\ close >= m.comma + 2
        hits == {k \in 1..Len(s) : hit(k)}
    IN  IF hits = {} THEN NoMatch
        ELSE LET k == CHOOSE k \in hits : \A j \in hits : k <= j
             IN  [ok |-> TRUE, inner |-> SubSeq(s, block_match_at(s, k).comma + 1, close - 1)]

\* re.match(r'&\w+\s*\{', stripped)
is_node_start(line) ==
    LET s == strip(line)
        p1 == skip_word(s, 2)
        p2 == skip_ws(s, p1)
    IN  /\ s # <<>> /\ s[1] = "&"
        /\ p1 > 2
        /\ p2 <= Len(s) /\ s[p2] = "{"

\* the scan with the loop test  depth >= 0  in place of  depth > 0
RECURSIVE scan_end_while_not_negative(_, _, _, _, _)
scan_end_while_not_negative(ls, n, depth, open, close) ==
    IF depth >= 0 /\ n + 1 < Len(ls)
    THEN scan_end_while_not_negative(ls, n + 1,
             depth + count(ls[n + 2], open) - count(ls[n + 2], close), open, close)
    ELSE n

\* the last line of the region that starts at line `start`: lines are added
\* while the balance of open and close is positive and a next line exists
RECURSIVE scan_end(_, _, _, _, _)
scan_end(ls, n, depth, open, close) ==
    IF depth > 0 /\ n + 1 < Len(ls)
    THEN scan_end(ls, n + 1, depth + count(ls[n + 2], open) - count(ls[n + 2], close),
                  open, close)
    ELSE n

region_end(ls, start, open, close) ==
    scan_end(ls, start, count(ls[start + 1], open) - count(ls[start + 1], close),
             open, close)

\* the text of lines first..last: line + '\n' + line ...
region_text(ls, first, last) == join(<<NL>>, SubSeq(ls, first + 1, last + 1))

\* the first line of the backslash chain that line j belongs to
RECURSIVE chain_start(_, _)
chain_start(ls, k) ==
    IF k > 0 /\ ends_with_backslash(ls[k]) THEN chain_start(ls, k - 1) ELSE k

RECURSIVE continuation_from(_, _)
continuation_from(ls, j) ==
    IF j < 0 THEN FALSE
    ELSE IF ends_with_backslash(ls[j + 1])
    THEN (IF startswith(strip(ls[chain_start(ls, j) + 1]), <<"#define">>) THEN TRUE
          ELSE continuation_from(ls, j - 1))
    ELSE FALSE

is_in_backslash_continuation(ls, index) == continuation_from(ls, index - 1)

\* the last line of the #define span that starts at line n: the first line
\* from n on that does not end with a backslash, or the last line of the file
RECURSIVE define_end(_, _)
define_end(ls, n) ==
    IF n < Len(ls) /\ ends_with_backslash(ls[n + 1]) THEN define_end(ls, n + 1)
    ELSE IF n < Len(ls) THEN n ELSE Len(ls) - 1

(***************************************************************************)
(* format_keymap's blank-line clean-up: re.sub(r'\n{3,}', '\n\n', text).   *)
(***************************************************************************)
\* the pattern \n{4,}: the fourth and every later newline of a run is dropped
in_run_of_four(s, k) ==
    k > 3 /\ s[k] = NL /\ s[k - 1] = NL /\ s[k - 2] = NL /\ s[k - 3] = NL

\* a run of 3 or more newlines is replaced by 2: the third and every later
\* newline of a run is dropped
in_long_run(s, k) == k > 2 /\ s[k] = NL /\ s[k - 1] = NL /\ s[k - 2] = NL

\* the characters of positions lo..hi that are kept, collected by halves
RECURSIVE collapse_range(_, _, _)
collapse_range(s, lo, hi) ==
    IF lo > hi THEN <<>>
    ELSE IF lo = hi THEN (IF in_long_run(s, lo) THEN <<>> ELSE <<s[lo]>>)
    ELSE collapse_range(s, lo, (lo + hi) \div 2)
           \o collapse_range(s, (lo + hi) \div 2 + 1, hi)

collapse_blank_lines(s) == collapse_range(s, 1, Len(s))

(***************************************************************************)
(* The files the formatter is run on: up to MaxLines lines, each taken     *)
(* from one of two menus of lines.                                         *)
(***************************************************************************)
MaxLines == 4

\* ZMK_LAYER(a,&k X &m(X))
LayerA == <<"ZMK_LAYER", "(", "a", ",", "&", "k", " ", "X", " ", "&", "m", "(", "X", ")", ")">>
\* an indented invocation:  ZMK_LAYER(b,&kk)
LayerIndented == <<" ", "ZMK_LAYER", "(", "b", ",", "&", "k", "k", ")">>
\* an invocation that is still open at the end of its line: ZMK_LAYER(c,&k(X) &k
LayerOpen == <<"ZMK_LAYER", "(", "c", ",", "&", "k", "(", "X", ")", " ", "&", "k">>
CloseParen == <<")">>
\* a node selector with trailing blanks
NodeOpen == <<"&", "s", " ", "{", " ", " ">>
\* a line inside a node that looks like a layer and closes the node
NodeLayer == <<"ZMK_LAYER", "(", "x", ",", "&", "k", "k", ")", " ", "}">>
\* #define X &k
DefineKey == <<"#define", " ", "X", " ", "&", "k">>
\* a node selector continued with a backslash
NodeBackslash == <<"&", "s", " ", "{", " ", "\\">>
\* a continued #define that holds a closing brace
DefineBackslash == <<"#define", " ", "}", " ", "\\">>
\* ZMK_BEHAVIOR(m,t,p;)
MacroBlock == <<"ZMK_BEHAVIOR", "(", "m", ",", "t", ",", "p", ";", ")">>
Blank == <<>>
\* a property line with trailing blanks
Trailing == <<" ", "p", ";", " ">>

LayerMenu == {LayerA, LayerIndented, LayerOpen, CloseParen, NodeOpen, NodeLayer, DefineKey}

BlockMenu == {NodeBackslash, DefineBackslash, LayerA, MacroBlock, Blank, Trailing, CloseParen}

\* all files of 1..MaxLines lines of one menu, as line sequences
FilesOf(menu) == UNION {[1..n -> menu] : n \in 1..MaxLines}

Inputs == {join(<<NL>>, f) : f \in FilesOf(LayerMenu) \cup FilesOf(BlockMenu)}

\* --cols of the command line
GridCols == 2

(***************************************************************************)
(* One run of format_keymap as a state machine: macro extraction, the      *)
(* collection pass, the width, the rewrite pass, the blank-line clean-up.  *)
(***************************************************************************)
VARIABLES
    content,       \* the text given to format_keymap
    cols,          \* the column count given to format_keymap
    lines,         \* content.split('\n')
    pc,            \* the step of format_keymap that runs next
    key_macros,    \* extract_key_macros(content)
    layers,        \* the regions recorded by collect_zmk_layers
    global_width,  \* the file-wide column width
    i,             \* the line index of the running pass
    layer_idx,     \* the cursor of the rewrite pass into layers
    result,        \* the blocks appended by the rewrite pass
    formatted,     \* the return value of format_keymap
    blocks,        \* history: for every region of the rewrite pass the lines
                   \* it consumed and the lines its block was computed from
    calls,         \* history: the arguments of every format_zmk_layer call
    run,           \* 1 in the first run, 2 when the output is formatted again
    first_output,  \* the return value of the first run
    entered,       \* history: start and end line of every ZMK_LAYER region
                   \* the collection pass has scanned, parsed or not
    scan,          \* the locals of a character loop that is run on its own
    args,          \* the parsed command line of main
    files,         \* the file system: the text of every path, or None
    stdout,        \* the texts printed to standard output
    stderr,        \* the texts printed to standard error
    exit_code      \* the exit status of main, None while it runs

vars == <<content, cols, lines, pc, key_macros, layers, global_width, i, layer_idx,
          result, formatted, blocks, calls, run, first_output, entered, scan,
          args, files, stdout, stderr, exit_code>>

\* the state outside format_keymap: the command line and its effects
main_vars == <<args, files, stdout, stderr, exit_code>>

\* format_keymap, format_zmk_layer or a loop called directly, without main
NoProcess ==
    /\ args = <<>>
    /\ files = <<>>
    /\ stdout = <<>>
    /\ stderr = <<>>
    /\ exit_code = None

\* no character loop is run on its own
NoScan == <<>>

Start(text, c, r, out) ==
    /\ content = text
    /\ cols = c
    /\ lines = split_lines(text)
    /\ pc = "extract"
    /\ key_macros = {}
    /\ layers = <<>>
    /\ global_width = 0
    /\ i = 0
    /\ layer_idx = 0
    /\ result = <<>>
    /\ formatted = <<>>
    /\ blocks = <<>>
    /\ calls = <<>>
    /\ run = r
    /\ first_output = out
    /\ entered = <<>>
    /\ scan = NoScan

Init == (\E text \in Inputs : Start(text, GridCols, 1, <<>>)) /\ NoProcess

\* Step 1: key_macros = extract_key_macros(content)
ExtractMacros ==
    /\ pc = "extract"
    /\ key_macros' = extract_key_macros(content)
    /\ pc' = "collect"
    /\ UNCHANGED <<content, cols, lines, layers, global_width, i, layer_idx, result,
                   formatted, blocks, calls, run, first_output, entered, scan, main_vars>>

(***************************************************************************)
(* collect_zmk_layers: one action per iteration of its loop.               *)
(***************************************************************************)
CollectFrame ==
    UNCHANGED <<content, cols, lines, pc, key_macros, global_width, layer_idx, result,
                formatted, blocks, calls, run, first_output, scan, main_vars>>

CollectDefine ==
    /\ pc = "collect" /\ i < Len(lines)
    /\ is_define_start(lines[i + 1])
    /\ i' = define_end(lines, i) + 1
    /\ UNCHANGED <<layers, entered>>
    /\ CollectFrame

CollectLayer ==
    /\ pc = "collect" /\ i < Len(lines)
    /\ ~is_define_start(lines[i + 1])
    /\ is_layer_start(lines[i + 1])
    /\ LET end_line == region_end(lines, i, "(", ")")
           parsed == parse_zmk_layer(region_text(lines, i, end_line), key_macros)
       IN  /\ layers' = IF parsed.ok
                        THEN Append(layers, [start_line |-> i, end_line |-> end_line,
                                             name |-> parsed.name,
                                             bindings |-> parsed.bindings])
                        ELSE layers
           /\ entered' = Append(entered, [start_line |-> i, end_line |-> end_line])
           /\ i' = end_line + 1
    /\ CollectFrame

CollectOther ==
    /\ pc = "collect" /\ i < Len(lines)
    /\ ~is_define_start(lines[i + 1])
    /\ ~is_layer_start(lines[i + 1])
    /\ i' = i + 1
    /\ UNCHANGED <<layers, entered>>
    /\ CollectFrame

\* Step 3: all_bindings and the maximum length of a binding
RECURSIVE all_bindings(_)
all_bindings(ls) == IF ls = <<>> THEN <<>> ELSE Head(ls).bindings \o all_bindings(Tail(ls))

max_binding_len(bs) == IF bs = <<>> THEN 0 ELSE Max({str_len(bs[j]) : j \in 1..Len(bs)})

\* the collection loop ends; Step 3 sets the width and Step 4 starts
ComputeWidth ==
    /\ pc = "collect" /\ i >= Len(lines)
    /\ global_width' = max_binding_len(all_bindings(layers))
    /\ pc' = "rewrite"
    /\ i' = 0
    /\ layer_idx' = 0
    /\ result' = <<>>
    /\ UNCHANGED <<content, cols, lines, key_macros, layers, formatted, blocks, calls,
                   run, first_output, entered, scan, main_vars>>

(***************************************************************************)
(* The rewrite pass of format_keymap: one action per branch of its loop.   *)
(***************************************************************************)
RewriteFrame ==
    UNCHANGED <<content, cols, lines, pc, key_macros, layers, global_width, formatted,
                run, first_output, entered, scan, main_vars>>

\* the history entry of a region: lines first..last were consumed, the block
\* appended for them was computed from lines src_first..src_last
Block(kind, first, last, src_first, src_last, text) ==
    [kind |-> kind, first |-> first, last |-> last,
     src_first |-> src_first, src_last |-> src_last, text |-> text]

Call(name, bindings, width) ==
    [name |-> name, bindings |-> bindings, cols |-> cols, global_width |-> width]

\* a backslash-continued #define: every line of the span is appended as is
RewriteDefine ==
    /\ pc = "rewrite" /\ i < Len(lines)
    /\ is_define_start(lines[i + 1])
    /\ LET last == define_end(lines, i)
       IN  /\ result' = result \o SubSeq(lines, i + 1, last + 1)
           /\ blocks' = Append(blocks, Block("define", i, last, i, last,
                                             region_text(lines, i, last)))
           /\ i' = last + 1
    /\ UNCHANGED <<layer_idx, calls>>
    /\ RewriteFrame

\* a line that matches no construct, or lies in a continuation: appended as is
is_passthrough(ls, n) ==
    \/ is_in_backslash_continuation(ls, n)
    \/ /\ ~is_layer_start(ls[n + 1])
       /\ ~macro_match(ls[n + 1]).ok
       /\ ~is_node_start(ls[n + 1])

RewritePassthrough ==
    /\ pc = "rewrite" /\ i < Len(lines)
    /\ ~is_define_start(lines[i + 1])
    /\ is_passthrough(lines, i)
    /\ result' = Append(result, lines[i + 1])
    /\ blocks' = Append(blocks, Block("line", i, i, i, i, lines[i + 1]))
    /\ i' = i + 1
    /\ UNCHANGED <<layer_idx, calls>>
    /\ RewriteFrame

\* a layer invocation while recorded regions are left: the next recorded
\* region is formatted and its lines are skipped
RewriteLayer ==
    /\ pc = "rewrite" /\ i < Len(lines)
    /\ ~is_define_start(lines[i + 1])
    /\ ~is_in_backslash_continuation(lines, i)
    /\ is_layer_start(lines[i + 1])
    /\ layer_idx < Len(layers)
    /\ LET rec == layers[layer_idx + 1]
           text == format_zmk_layer(rec.name, rec.bindings, cols, <<global_width>>)
           last == IF i < rec.end_line THEN rec.end_line ELSE i
       IN  /\ result' = Append(result, text)
           /\ blocks' = Append(blocks, Block("layer", i, last, rec.start_line,
                                             rec.end_line, text))
           /\ calls' = Append(calls, Call(rec.name, rec.bindings, <<global_width>>))
           /\ i' = last + 1
    /\ layer_idx' = layer_idx + 1
    /\ RewriteFrame

\* a layer invocation when no recorded region is left: parsed on the spot
RewriteLayerFallback ==
    /\ pc = "rewrite" /\ i < Len(lines)
    /\ ~is_define_start(lines[i + 1])
    /\ ~is_in_backslash_continuation(lines, i)
    /\ is_layer_start(lines[i + 1])
    /\ layer_idx >= Len(layers)
    /\ LET last == region_end(lines, i, "(", ")")
           macro_content == region_text(lines, i, last)
           parsed == parse_zmk_layer(macro_content, key_macros)
           text == IF parsed.ok
                   THEN format_zmk_layer(parsed.name, parsed.bindings, cols,
                                         <<global_width>>)
                   ELSE macro_content
       IN  /\ result' = Append(result, text)
           /\ blocks' = Append(blocks, Block("layer_fallback", i, last, i, last, text))
           /\ calls' = IF parsed.ok
                       THEN Append(calls, Call(parsed.name, parsed.bindings,
                                               <<global_width>>))
                       ELSE calls
           /\ i' = last + 1
    /\ UNCHANGED layer_idx
    /\ RewriteFrame

\* ZMK_BEHAVIOR, ZMK_HOLD_TAP, ZMK_TAP_DANCE, ZMK_MACRO
RewriteBlockMacro ==
    /\ pc = "rewrite" /\ i < Len(lines)
    /\ ~is_define_start(lines[i + 1])
    /\ ~is_in_backslash_continuation(lines, i)
    /\ ~is_layer_start(lines[i + 1])
    /\ macro_match(lines[i + 1]).ok
    /\ LET m == macro_match(lines[i + 1])
           last == region_end(lines, i, "(", ")")
           macro_content == region_text(lines, i, last)
           fm == full_match(macro_content, m.macro_type, m.macro_name)
           text == IF fm.ok
                   THEN format_zmk_macro_block(m.macro_type, m.macro_name, strip(fm.inner))
                   ELSE macro_content
       IN  /\ result' = Append(result, text)
           /\ blocks' = Append(blocks, Block("macro", i, last, i, last, text))
           /\ i' = last + 1
    /\ UNCHANGED <<layer_idx, calls>>
    /\ RewriteFrame

\* a devicetree node reference such as &sk { ... }
RewriteNode ==
    /\ pc = "rewrite" /\ i < Len(lines)
    /\ ~is_define_start(lines[i + 1])
    /\ ~is_in_backslash_continuation(lines, i)
    /\ ~is_layer_start(lines[i + 1])
    /\ ~macro_match(lines[i + 1]).ok
    /\ is_node_start(lines[i + 1])
    /\ LET last == region_end(lines, i, "{", "}")
           text == format_devicetree_node(region_text(lines, i, last))
       IN  /\ result' = Append(result, text)
           /\ blocks' = Append(blocks, Block("node", i, last, i, last, text))
           /\ i' = last + 1
    /\ UNCHANGED <<layer_idx, calls>>
    /\ RewriteFrame

\* the rewrite loop ends: the blocks are joined and blank lines cleaned up
Collapse ==
    /\ pc = "rewrite" /\ i >= Len(lines)
    /\ formatted' = collapse_blank_lines(join(<<NL>>, result))
    /\ pc' = "done"
    /\ UNCHANGED <<content, cols, lines, key_macros, layers, global_width, i, layer_idx,
                   result, blocks, calls, run, first_output, entered, scan, main_vars>>

Next ==
    \/ ExtractMacros
    \/ CollectDefine
    \/ CollectLayer
    \/ CollectOther
    \/ ComputeWidth
    \/ RewriteDefine
    \/ RewritePassthrough
    \/ RewriteLayer
    \/ RewriteLayerFallback
    \/ RewriteBlockMacro
    \/ RewriteNode
    \/ Collapse

Spec == Init /\ [][Next]_vars

(***************************************************************************)
(* Formatting the output again: format_keymap(format_keymap(t, cols), cols)*)
(***************************************************************************)
Reformat ==
    /\ pc = "done" /\ run = 1
    /\ content' = formatted
    /\ lines' = split_lines(formatted)
    /\ pc' = "extract"
    /\ key_macros' = {}
    /\ layers' = <<>>
    /\ global_width' = 0
    /\ i' = 0
    /\ layer_idx' = 0
    /\ result' = <<>>
    /\ formatted' = <<>>
    /\ blocks' = <<>>
    /\ calls' = <<>>
    /\ run' = 2
    /\ first_output' = formatted
    /\ entered' = <<>>
    /\ UNCHANGED <<cols, scan, main_vars>>

NextTwice == Next \/ Reformat

SpecTwice == Init /\ [][NextTwice]_vars

(***************************************************************************)
(* format_zmk_layer on its own: called once with a list of bindings, a     *)
(* column count and an optional width.                                     *)
(***************************************************************************)
MaxBindings == 4
MaxCols == 3
MaxWidth == 6

\* &k, &m(X) and the bare macro X
BindingPool == {<<"&", "k">>, <<"&", "m", "(", "X", ")">>, <<"X">>}

GridMacros == {<<"X">>}

\* every small call, and the layout of a split keyboard: cols=10 (the default
\* of line 105), width 7, a full row of 10 bindings and a thumb row of 4
GridInit ==
    /\ \/ \E n \in 0..MaxBindings : \E bs \in [1..n -> BindingPool] :
          \E w \in {NoWidth} \cup {<<x>> : x \in 0..MaxWidth} :
          \E c \in 1..MaxCols :
             /\ cols = c
             /\ calls = <<[name |-> <<"a">>, bindings |-> bs, cols |-> c,
                           global_width |-> w]>>
       \/ \E b \in BindingPool :
             /\ cols = 10
             /\ calls = <<[name |-> <<"a">>, bindings |-> [k \in 1..14 |-> b],
                           cols |-> 10, global_width |-> <<7>>]>>
    /\ content = <<>>
    /\ lines = <<>>
    /\ pc = "grid"
    /\ key_macros = GridMacros
    /\ layers = <<>>
    /\ global_width = 0
    /\ i = 0
    /\ layer_idx = 0
    /\ result = <<>>
    /\ formatted = <<>>
    /\ blocks = <<>>
    /\ run = 1
    /\ first_output = <<>>
    /\ entered = <<>>
    /\ scan = NoScan
    /\ NoProcess

FormatLayerCall ==
    /\ pc = "grid"
    /\ formatted' = format_zmk_layer(calls[1].name, calls[1].bindings, calls[1].cols,
                                     calls[1].global_width)
    /\ pc' = "grid_done"
    /\ UNCHANGED <<content, cols, lines, key_macros, layers, global_width, i, layer_idx,
                   result, blocks, calls, run, first_output, entered, scan, main_vars>>

GridNext == FormatLayerCall

SpecGrid == GridInit /\ [][GridNext]_vars

(***************************************************************************)
(* The tokenizer loop of parse_zmk_layer on its own, one action per        *)
(* iteration: content is bindings_str, scan holds i (as pos), current,     *)
(* paren_depth and bindings.                                               *)
(***************************************************************************)
MaxBindingText == 5

ParseAlphabet == {"&", "k", "(", ")", " ", "X"}

\* bindings_str is stripped before the loop (line 51)
BindingTexts ==
    {s \in UNION {[1..n -> ParseAlphabet] : n \in 0..MaxBindingText} : strip(s) = s}

ParseInit ==
    /\ content \in BindingTexts
    /\ key_macros = GridMacros
    /\ pc = "tokenize"
    /\ scan = TokenizeStart
    /\ cols = GridCols
    /\ lines = <<>>
    /\ layers = <<>>
    /\ global_width = 0
    /\ i = 0
    /\ layer_idx = 0
    /\ result = <<>>
    /\ formatted = <<>>
    /\ blocks = <<>>
    /\ calls = <<>>
    /\ run = 1
    /\ first_output = <<>>
    /\ entered = <<>>
    /\ NoProcess

\* everything but pc and scan
LoopFrame ==
    UNCHANGED <<content, cols, lines, key_macros, layers, global_width, i, layer_idx,
                result, formatted, blocks, calls, run, first_output, entered, main_vars>>

\* one iteration of  while i < len(bindings_str)
TokenizeChar ==
    /\ pc = "tokenize" /\ scan.pos <= Len(content)
    /\ scan' = tokenize_step(content, scan.pos, scan, key_macros)
    /\ UNCHANGED pc
    /\ LoopFrame

\* the loop ends: the text left in current is the last binding
TokenizeEnd ==
    /\ pc = "tokenize" /\ scan.pos > Len(content)
    /\ scan' = [scan EXCEPT !.bindings = flush(scan)]
    /\ pc' = "tokenized"
    /\ LoopFrame

ParseNext == TokenizeChar \/ TokenizeEnd

SpecParse == ParseInit /\ [][ParseNext]_vars

(***************************************************************************)
(* format_zmk_macro_block on the body of a ZMK_MACRO, its property loop    *)
(* one action per iteration: content is the stripped body, scan holds i    *)
(* (as pos), current, the two depths, in_comment and properties, and as    *)
(* history closes: for every property the position of the ';' that closed  *)
(* it (0 for the text left after the last ';').                            *)
(***************************************************************************)
MaxPropText == 4

PropAlphabet == {"p", ";", "/", NL, "<", ">", "(", ")"}

\* a < 1 2 >; // note
\* b (1,2);
CommentedList ==
    <<"a", " ", "<", " ", "1", " ", "2", " ", ">", ";", " ", "/", "/", " ",
      "n", "o", "t", "e", NL, "b", " ", "(", "1", ",", "2", ")", ";">>

\* content is stripped before the loop (line 155)
PropTexts ==
    {s \in UNION {[1..n -> PropAlphabet] : n \in 0..MaxPropText} : strip(s) = s}
      \cup {CommentedList}

PropsInit ==
    /\ content \in PropTexts
    /\ key_macros = {}
    /\ pc = "properties"
    /\ scan = [pos |-> 1, current |-> <<>>, angle_depth |-> 0, paren_depth |-> 0,
               in_comment |-> FALSE, properties |-> <<>>, closes |-> <<>>]
    /\ cols = GridCols
    /\ lines = <<>>
    /\ layers = <<>>
    /\ global_width = 0
    /\ i = 0
    /\ layer_idx = 0
    /\ result = <<>>
    /\ formatted = <<>>
    /\ blocks = <<>>
    /\ calls = <<>>
    /\ run = 1
    /\ first_output = <<>>
    /\ entered = <<>>
    /\ NoProcess

\* the history of the closing positions after a step from st to nxt at pos
closes_after(st, nxt, pos) ==
    IF Len(nxt.properties) > Len(st.properties) THEN Append(st.closes, pos) ELSE st.closes

\* one iteration of  while i < len(content)
PropertiesChar ==
    /\ pc = "properties" /\ scan.pos <= Len(content)
    /\ LET nxt == properties_step(content, scan.pos, scan)
       IN  scan' = [nxt EXCEPT !.pos = scan.pos + 1,
                               !.closes = closes_after(scan, nxt, scan.pos)]
    /\ UNCHANGED <<pc, formatted>>
    /\ UNCHANGED <<content, cols, lines, key_macros, layers, global_width, i, layer_idx,
                   result, blocks, calls, run, first_output, entered, main_vars>>

\* the loop ends: the text left is the last property and the block is built
PropertiesEnd ==
    /\ pc = "properties" /\ scan.pos > Len(content)
    /\ LET props == last_props(scan.properties, scan.current)
       IN  scan' = [scan EXCEPT !.properties = props,
                                !.closes = IF Len(props) > Len(scan.properties)
                                           THEN Append(scan.closes, 0) ELSE scan.closes]
    /\ formatted' = format_zmk_macro_block("ZMK_MACRO", <<"m">>, content)
    /\ pc' = "properties_done"
    /\ UNCHANGED <<content, cols, lines, key_macros, layers, global_width, i, layer_idx,
                   result, blocks, calls, run, first_output, entered, main_vars>>

PropsNext == PropertiesChar \/ PropertiesEnd

SpecProps == PropsInit /\ [][PropsNext]_vars

(***************************************************************************)
(* main: the command line, the existence check, format_keymap and the      *)
(* write to the chosen destination.                                        *)
(***************************************************************************)
Paths == {"in.keymap", "out.keymap"}

\* args.output when --output is not given
NoOutput == <<>>

\* a file that the collection pass rejects and one with a recorded layer, a
\* continued #define, a block macro, a node and plain lines
MainTexts ==
    {LayerIndented,
     join(<<NL>>, <<LayerA, Trailing, DefineBackslash, Trailing, MacroBlock, NodeOpen>>)}

\* a path that always exists: the check of line 472 left out
exists_unchecked(fs, path) == TRUE

\* path.exists()
exists(fs, path) == fs[path] # None

\* the branch taken at the end of main whenever --output is given
write_branch_output_first(a) ==
    IF a.output # NoOutput THEN "output"
    ELSE IF a.in_place THEN "in_place"
    ELSE "stdout"

\* the branch of lines 479-486 taken at the end of main
write_branch(a) ==
    IF a.in_place THEN "in_place"
    ELSE IF a.output # NoOutput THEN "output"
    ELSE "stdout"

MainInit ==
    /\ \E f \in Paths : \E ip \in BOOLEAN : \E o \in {NoOutput} \cup {<<q>> : q \in Paths} :
          args = [file |-> f, cols |-> GridCols, in_place |-> ip, output |-> o]
    /\ files \in [Paths -> MainTexts \cup {None}]
    /\ stdout = <<>>
    /\ stderr = <<>>
    /\ exit_code = None
    /\ pc = "main"
    /\ content = <<>>
    /\ cols = GridCols
    /\ lines = <<>>
    /\ key_macros = {}
    /\ layers = <<>>
    /\ global_width = 0
    /\ i = 0
    /\ layer_idx = 0
    /\ result = <<>>
    /\ formatted = <<>>
    /\ blocks = <<>>
    /\ calls = <<>>
    /\ run = 1
    /\ first_output = <<>>
    /\ entered = <<>>
    /\ scan = NoScan

\* what format_keymap leaves alone while main runs its own statements
MainFrame ==
    UNCHANGED <<cols, key_macros, layers, global_width, i, layer_idx, result, formatted,
                blocks, calls, run, first_output, entered, scan>>

\* lines 472-474: the file is missing
MainMissing ==
    /\ pc = "main"
    /\ ~exists(files, args.file)
    /\ stderr' = Append(stderr, <<"Error: ", args.file, " not found">>)
    /\ exit_code' = 1
    /\ pc' = "exited"
    /\ UNCHANGED <<args, files, stdout, content, lines>>
    /\ MainFrame

\* lines 476-477: the file is read and format_keymap is called
MainRead ==
    /\ pc = "main"
    /\ exists(files, args.file)
    /\ content' = files[args.file]
    /\ lines' = split_lines(files[args.file])
    /\ pc' = "extract"
    /\ UNCHANGED main_vars
    /\ MainFrame

\* lines 479-481: --in-place
MainWriteInPlace ==
    /\ pc = "done"
    /\ write_branch(args) = "in_place"
    /\ files' = [files EXCEPT ![args.file] = formatted]
    /\ stdout' = Append(stdout, <<"Formatted ", args.file>>)
    /\ exit_code' = 0
    /\ pc' = "exited"
    /\ UNCHANGED <<args, stderr, content, lines>>
    /\ MainFrame

\* lines 482-484: --output PATH
MainWriteOutput ==
    /\ pc = "done"
    /\ write_branch(args) = "output"
    /\ files' = [files EXCEPT ![args.output[1]] = formatted]
    /\ stdout' = Append(stdout, <<"Wrote ", args.output[1]>>)
    /\ exit_code' = 0
    /\ pc' = "exited"
    /\ UNCHANGED <<args, stderr, content, lines>>
    /\ MainFrame

\* lines 485-486: print(formatted)
MainPrint ==
    /\ pc = "done"
    /\ write_branch(args) = "stdout"
    /\ stdout' = Append(stdout, Append(formatted, NL))
    /\ exit_code' = 0
    /\ pc' = "exited"
    /\ UNCHANGED <<args, files, stderr, content, lines>>
    /\ MainFrame

MainNext ==
    \/ MainMissing
    \/ MainRead
    \/ Next
    \/ MainWriteInPlace
    \/ MainWriteOutput
    \/ MainPrint

SpecMain == MainInit /\ [][MainNext]_vars

(***************************************************************************)
(* format_zmk_macro_block on its own: called once with a macro kind, a     *)
(* name and a body.  calls holds the arguments; scan holds what the        *)
(* function computes on the way: the behavior type, the body that is left  *)
(* for the property loop and the properties.                               *)
(***************************************************************************)
MaxBlockText == 4

BlockAlphabet == {"t", ",", ";", "/", NL, " ", "<", ">"}

\* t < 1, 2 >, a;
\* b
\*   c; // d
TaggedList ==
    <<"t", " ", "<", " ", "1", ",", " ", "2", " ", ">", ",", " ", "a", ";", NL,
      "b", NL, " ", " ", "c", ";", " ", "/", "/", " ", "d">>

\* format_keymap passes the stripped group of the pattern (line 428)
BlockTexts ==
    {s \in UNION {[1..n -> BlockAlphabet] : n \in 0..MaxBlockText} : strip(s) = s}
      \cup {TaggedList}

BlockInit ==
    /\ \E kind \in BlockMacros : \E text \in BlockTexts :
          /\ content = text
          /\ calls = <<[macro_type |-> kind, name |-> <<"m">>, content |-> text]>>
    /\ pc = "block"
    /\ scan = NoScan
    /\ key_macros = {}
    /\ cols = GridCols
    /\ lines = <<>>
    /\ layers = <<>>
    /\ global_width = 0
    /\ i = 0
    /\ layer_idx = 0
    /\ result = <<>>
    /\ formatted = <<>>
    /\ blocks = <<>>
    /\ run = 1
    /\ first_output = <<>>
    /\ entered = <<>>
    /\ NoProcess

\* the call of format_zmk_macro_block
FormatBlockCall ==
    /\ pc = "block"
    /\ LET c == calls[1]
           b == split_behavior_type(c.macro_type, strip(c.content))
       IN  /\ scan' = [behavior_type |-> b.behavior_type, content |-> b.content,
                       properties |-> split_properties(b.content)]
           /\ formatted' = format_zmk_macro_block(c.macro_type, c.name, c.content)
    /\ pc' = "block_done"
    /\ UNCHANGED <<content, cols, lines, key_macros, layers, global_width, i, layer_idx,
                   result, blocks, calls, run, first_output, entered, main_vars>>

BlockNext == FormatBlockCall

SpecBlock == BlockInit /\ [][BlockNext]_vars

(***************************************************************************)
(* format_devicetree_node on its own: called on the text of a node region  *)
(* as format_keymap cuts it (lines 437-443), then once more on its own     *)
(* result.  first_output keeps the result of the first call.               *)
(***************************************************************************)
MaxNodeLines == 3

\* an indented selector:   &s{
NodeIndented == <<" ", " ", "&", "s", "{">>
\* a closing brace with blanks on both sides
NodeClose == <<" ", "}", " ", " ">>
\* a line with a tab in front, two blanks inside and a tab at the end
NodeTabbed == <<"\t", "p", " ", " ", "p", "\t">>
\* a node on one line: &s { p; }, followed by a blank
NodeOneLine == <<"&", "s", " ", "{", " ", "p", ";", " ", "}", " ">>

NodeMenu == {NodeOpen, NodeIndented, NodeClose, NodeTabbed, NodeOneLine, Trailing, Blank}

\* the region texts format_keymap passes: a selector line and the lines
\* after it up to the line that balances the braces or the end of the file
NodeTexts ==
    {region_text(f, 0, region_end(f, 0, "{", "}")) :
        f \in {g \in UNION {[1..n -> NodeMenu] : n \in 1..MaxNodeLines} :
                  is_node_start(g[1])}}

NodeInit ==
    /\ content \in NodeTexts
    /\ pc = "node"
    /\ formatted = <<>>
    /\ first_output = <<>>
    /\ run = 1
    /\ scan = NoScan
    /\ key_macros = {}
    /\ cols = GridCols
    /\ lines = <<>>
    /\ layers = <<>>
    /\ global_width = 0
    /\ i = 0
    /\ layer_idx = 0
    /\ result = <<>>
    /\ blocks = <<>>
    /\ calls = <<>>
    /\ entered = <<>>
    /\ NoProcess

\* everything but pc, formatted, first_output and run
NodeFrame ==
    UNCHANGED <<content, cols, lines, key_macros, layers, global_width, i, layer_idx,
                result, blocks, calls, entered, scan, main_vars>>

\* the call on the region text
FormatNodeCall ==
    /\ pc = "node"
    /\ formatted' = format_devicetree_node(content)
    /\ pc' = "node_done"
    /\ UNCHANGED <<first_output, run>>
    /\ NodeFrame

\* the call on the result of the first call
FormatNodeAgain ==
    /\ pc = "node_done"
    /\ first_output' = formatted
    /\ formatted' = format_devicetree_node(formatted)
    /\ run' = 2
    /\ pc' = "node_twice"
    /\ NodeFrame

NodeNext == FormatNodeCall \/ FormatNodeAgain

SpecNode == NodeInit /\ [][NodeNext]_vars

(***************************************************************************)
(* The three loops together: a run is either one format_keymap call with   *)
(* its collection pass and its rewrite pass, or one tokenizer loop of      *)
(* parse_zmk_layer.                                                        *)
(***************************************************************************)
\* one line for every branch of the two line loops: a continued #define, an
\* open layer, its closing line, an indented layer, a node, a block macro and
\* a plain line
LoopMenu == {DefineBackslash, LayerOpen, CloseParen, LayerIndented, NodeOpen, MacroBlock,
             Trailing}

LoopInputs == {join(<<NL>>, f) : f \in FilesOf(LoopMenu)}

LoopsInit ==
    \/ (\E text \in LoopInputs : Start(text, GridCols, 1, <<>>)) /\ NoProcess
    \/ ParseInit

LoopsNext == Next \/ ParseNext

SpecLoops == LoopsInit /\ [][LoopsNext]_vars

(***************************************************************************)
(* Layer merging: merge_layers of the package keymap_merge and the legacy  *)
(* merge_layers of draw/merge_layers.py.  A key of a layer is None, a      *)
(* string or a dict; it is modelled as a record with a form and the fields *)
(* t, tap, s, h and type, each one absent or present with a value.  A      *)
(* merged key has the fields t, s, h, type, tl, tr, bl and br.             *)
(***************************************************************************)
\* a field that a dict does not have
Absent == <<>>

NoneKey == [form |-> "none", t |-> Absent, tap |-> Absent, s |-> Absent, h |-> Absent,
            type |-> Absent]

StrKey(v) == [NoneKey EXCEPT !.form = "str", !.t = <<v>>]

DictKey(t, tap, s, h, type) ==
    [form |-> "dict", t |-> t, tap |-> tap, s |-> s, h |-> h, type |-> type]

\* dict.get(field, default)
get(key, field, default) == IF key[field] # Absent THEN key[field][1] ELSE default

\* keymap.get_tap_legend
get_tap_legend(key) ==
    IF key.form = "none" THEN ""
    ELSE IF key.form = "str" THEN key.t[1]
    ELSE IF key.type = <<"trans">> THEN ""
    ELSE get(key, "t", get(key, "tap", ""))

\* a legend without any field
NoLegend == [t |-> Absent, s |-> Absent, h |-> Absent, type |-> Absent]

\* keymap.get_full_legend
get_full_legend(key) ==
    IF key.form = "none" THEN NoLegend
    ELSE IF key.form = "str" THEN [NoLegend EXCEPT !.t = key.t]
    ELSE IF key.type = <<"trans">> THEN NoLegend
    ELSE LET tap == get(key, "t", get(key, "tap", ""))
         IN  [t |-> IF tap # "" THEN <<tap>> ELSE Absent,
              s |-> key.s, h |-> key.h, type |-> key.type]

\* keymap.get_layer_keys; a layer name is <<>> for None or <<name>>
get_layer_keys(layer_map, layer_name, num_keys) ==
    IF layer_name = <<>> THEN [j \in 1..num_keys |-> StrKey("")]
    ELSE IF layer_name[1] \notin DOMAIN layer_map THEN [j \in 1..num_keys |-> StrKey("")]
    ELSE layer_map[layer_name[1]]

\* if value: a field that is present and not the empty string
truthy(field) == field # Absent /\ field[1] # ""

\* a field that is set only if the value is not empty
kept_field(field) == IF truthy(field) THEN field ELSE Absent

\* a corner field that is set only if the legend is not empty
corner(legend) == IF legend # "" THEN <<legend>> ELSE Absent

\* the fields of key_def that are set
set_fields(key_def) == {f \in DOMAIN key_def : key_def[f] # Absent}

\* the end of _merge_key: a bare string if only t is set or nothing is
simplified(key_def) ==
    IF set_fields(key_def) = {"t"} THEN [form |-> "str", def |-> [key_def EXCEPT !.t = key_def.t]]
    ELSE IF set_fields(key_def) = {} THEN [form |-> "str", def |-> [key_def EXCEPT !.t = <<"">>]]
    ELSE [form |-> "dict", def |-> key_def]

\* the held-key override: the type, and s and h unless hidden
held(center, key_index, merge_config) ==
    IF key_index \in DOMAIN merge_config.held_key_colors
    THEN [t |-> kept_field(center.t),
          s |-> IF truthy(center.s) /\ center.s[1] \in merge_config.held_hide
                THEN Absent ELSE kept_field(center.s),
          h |-> IF truthy(center.h) /\ center.h[1] \in merge_config.held_hide
                THEN Absent ELSE kept_field(center.h),
          type |-> <<"held-" \o merge_config.held_key_colors[key_index]>>]
    ELSE [t |-> kept_field(center.t), s |-> kept_field(center.s), h |-> kept_field(center.h),
          type |-> kept_field(center.type)]

\* _merge_key with the legends of tl and tr exchanged
merge_key_corners_swapped(key_index, center_key, tl_key, tr_key, bl_key, br_key, merge_config) ==
    LET c == held(get_full_legend(center_key), key_index, merge_config)
    IN  simplified([t |-> c.t, s |-> c.s, h |-> c.h, type |-> c.type,
                    tl |-> corner(get_tap_legend(tr_key)),
                    tr |-> corner(get_tap_legend(tl_key)),
                    bl |-> corner(get_tap_legend(bl_key)),
                    br |-> corner(get_tap_legend(br_key))])

\* merger._merge_key
merge_key(key_index, center_key, tl_key, tr_key, bl_key, br_key, merge_config) ==
    LET c == held(get_full_legend(center_key), key_index, merge_config)
    IN  simplified([t |-> c.t, s |-> c.s, h |-> c.h, type |-> c.type,
                    tl |-> corner(get_tap_legend(tl_key)),
                    tr |-> corner(get_tap_legend(tr_key)),
                    bl |-> corner(get_tap_legend(bl_key)),
                    br |-> corner(get_tap_legend(br_key))])

\* keys[i] if i < len(keys) else "", with i counted from 0
key_or_empty(keys, n) == IF n < Len(keys) THEN keys[n + 1] ELSE StrKey("")

\* merger.merge_layers when the center layer exists
merge_layers(keymap, center_layer, corner_layers, merge_config) ==
    LET layer_map == keymap.layers
        center_keys == layer_map[center_layer]
        num_keys == Len(center_keys)
        tl_keys == get_layer_keys(layer_map, corner_layers.tl, num_keys)
        tr_keys == get_layer_keys(layer_map, corner_layers.tr, num_keys)
        bl_keys == get_layer_keys(layer_map, corner_layers.bl, num_keys)
        br_keys == get_layer_keys(layer_map, corner_layers.br, num_keys)
    IN  [layout |-> keymap.layout,
         layers |-> "merged" :>
             [j \in 1..num_keys |->
                 merge_key(j - 1, center_keys[j], key_or_empty(tl_keys, j - 1),
                           key_or_empty(tr_keys, j - 1), key_or_empty(bl_keys, j - 1),
                           key_or_empty(br_keys, j - 1), merge_config)]]

\* draw/merge_layers.py: the nested get_layer_keys
legacy_get_layer_keys(layer_map, layer_name, num_keys) ==
    IF layer_name = <<>> THEN [j \in 1..num_keys |-> StrKey("")]
    ELSE IF layer_name[1] \notin DOMAIN layer_map THEN [j \in 1..num_keys |-> StrKey("")]
    ELSE layer_map[layer_name[1]]

\* draw/merge_layers.py: the legend of a corner at position n (from 0)
legacy_corner(keys, n) == IF n < Len(keys) THEN get_tap_legend(keys[n + 1]) ELSE ""

\* draw/merge_layers.py: one iteration of the loop that builds merged_keys
legacy_merged_key(n, center_keys, tl_keys, tr_keys, bl_keys, br_keys, held_colors, held_hide_set) ==
    LET center_full == get_full_legend(center_keys[n + 1])
        start == [t |-> kept_field(center_full.t), s |-> kept_field(center_full.s),
                  h |-> kept_field(center_full.h), type |-> kept_field(center_full.type)]
        over == IF n \in DOMAIN held_colors
                THEN [start EXCEPT
                        !.type = <<"held-" \o held_colors[n]>>,
                        !.s = IF start.s # Absent /\ start.s[1] \in held_hide_set
                              THEN Absent ELSE start.s,
                        !.h = IF start.h # Absent /\ start.h[1] \in held_hide_set
                              THEN Absent ELSE start.h]
                ELSE start
    IN  simplified([t |-> over.t, s |-> over.s, h |-> over.h, type |-> over.type,
                    tl |-> corner(legacy_corner(tl_keys, n)),
                    tr |-> corner(legacy_corner(tr_keys, n)),
                    bl |-> corner(legacy_corner(bl_keys, n)),
                    br |-> corner(legacy_corner(br_keys, n))])

\* draw/merge_layers.py: merge_layers when the center layer exists
legacy_merge_layers(keymap, center_layer, tl_layer, tr_layer, bl_layer, br_layer, held_key_colors, held_hide) ==
    LET layer_map == keymap.layers
        center_keys == layer_map[center_layer]
        num_keys == Len(center_keys)
        tl_keys == legacy_get_layer_keys(layer_map, tl_layer, num_keys)
        tr_keys == legacy_get_layer_keys(layer_map, tr_layer, num_keys)
        bl_keys == legacy_get_layer_keys(layer_map, bl_layer, num_keys)
        br_keys == legacy_get_layer_keys(layer_map, br_layer, num_keys)
    IN  [layout |-> keymap.layout,
         layers |-> "merged" :>
             [j \in 1..num_keys |->
                 legacy_merged_key(j - 1, center_keys, tl_keys, tr_keys, bl_keys, br_keys,
                                   held_key_colors, held_hide)]]

(***************************************************************************)
(* One merge as a state machine: the package function is called, then the  *)
(* legacy function with the same arguments.  calls holds the arguments,    *)
(* result the value the package returns, first_output the value the        *)
(* legacy function returns.                                                *)
(***************************************************************************)
MaxMergeKeys == 2

\* keys of a center layer: "A", {t: A, s: S, h: H, type: x}, {tap: B, h: H},
\* {t: A, s: S, type: trans} and None
CenterPool ==
    {StrKey("A"),
     DictKey(<<"A">>, Absent, <<"S">>, <<"H">>, <<"x">>),
     DictKey(Absent, <<"B">>, Absent, <<"H">>, Absent),
     DictKey(<<"A">>, Absent, <<"S">>, Absent, <<"trans">>),
     NoneKey}

\* keys of a corner layer: "N", {tap: B, s: S, type: x} and {t: T, type: trans}
CornerPool ==
    {StrKey("N"),
     DictKey(Absent, <<"B">>, <<"S">>, Absent, <<"x">>),
     DictKey(<<"T">>, Absent, Absent, Absent, <<"trans">>)}

\* the layer sym that every keymap has
SymLayer == <<StrKey("Y"), StrKey("Z"), StrKey("W"), StrKey("V")>>

LayersOf(pool) == UNION {[1..n -> pool] : n \in 0..MaxMergeKeys}

\* CornerLayers: each corner is unset, a layer of the keymap or a name that
\* the keymap does not have
Corners(tl, tr, bl, br) == [tl |-> tl, tr |-> tr, bl |-> bl, br |-> br]

CornerMenu ==
    {Corners(<<>>, <<>>, <<>>, <<>>),
     Corners(<<"nav">>, <<>>, <<>>, <<>>),
     Corners(<<"nav">>, <<"sym">>, <<>>, <<"base">>),
     Corners(<<"gone">>, <<"nav">>, <<"sym">>, <<>>),
     Corners(<<"sym">>, <<"gone">>, <<"nav">>, <<"nav">>)}

\* MergeConfig: held_key_colors and held_hide
NoHeld == [held_key_colors |-> <<>>, held_hide |-> {}]

MergeConfigs ==
    {NoHeld,
     [held_key_colors |-> (0 :> "tl"), held_hide |-> {}],
     [held_key_colors |-> (0 :> "tl"), held_hide |-> {"H"}]}

MergeInit ==
    /\ \E base \in LayersOf(CenterPool) : \E nav \in LayersOf(CornerPool) :
       \E corners \in CornerMenu : \E config \in MergeConfigs :
       \E center \in {"base", "gone"} :
          /\ center = "gone" => (corners = Corners(<<>>, <<>>, <<>>, <<>>) /\ config = NoHeld)
          /\ calls = <<[keymap |-> [layout |-> "layout",
                                    layers |-> ("base" :> base @@ "nav" :> nav
                                                  @@ "sym" :> SymLayer)],
                        center_layer |-> center,
                        corner_layers |-> corners,
                        merge_config |-> config]>>
    /\ pc = "merge"
    /\ result = <<>>
    /\ first_output = <<>>
    /\ content = <<>>
    /\ formatted = <<>>
    /\ run = 1
    /\ scan = NoScan
    /\ key_macros = {}
    /\ cols = GridCols
    /\ lines = <<>>
    /\ layers = <<>>
    /\ global_width = 0
    /\ i = 0
    /\ layer_idx = 0
    /\ blocks = <<>>
    /\ entered = <<>>
    /\ NoProcess

\* everything but pc, result, first_output, stderr and exit_code
MergeFrame ==
    UNCHANGED <<content, cols, lines, key_macros, layers, global_width, i, layer_idx,
                formatted, blocks, calls, run, entered, scan, args, files, stdout>>

\* the center layer is not in the keymap: both functions report it and exit
MergeCenterMissing ==
    /\ pc = "merge"
    /\ calls[1].center_layer \notin DOMAIN calls[1].keymap.layers
    /\ stderr' = <<"Error: Center layer not found in keymap", "Available layers">>
    /\ exit_code' = 1
    /\ pc' = "exited"
    /\ UNCHANGED <<result, first_output>>
    /\ MergeFrame

\* merger.merge_layers returns
MergePackage ==
    /\ pc = "merge"
    /\ calls[1].center_layer \in DOMAIN calls[1].keymap.layers
    /\ result' = merge_layers(calls[1].keymap, calls[1].center_layer,
                              calls[1].corner_layers, calls[1].merge_config)
    /\ pc' = "merge_legacy"
    /\ UNCHANGED <<first_output, stderr, exit_code>>
    /\ MergeFrame

\* the corner layers that are named and not in the keymap
missing_corners(c) ==
    {f \in {"tl", "tr", "bl", "br"} :
        c.corner_layers[f] # <<>> /\ c.corner_layers[f][1] \notin DOMAIN c.keymap.layers}

\* the legacy merge_layers returns; it warns about every missing corner layer
MergeLegacy ==
    /\ pc = "merge_legacy"
    /\ LET c == calls[1]
       IN  /\ first_output' = legacy_merge_layers(c.keymap, c.center_layer,
                                 c.corner_layers.tl, c.corner_layers.tr,
                                 c.corner_layers.bl, c.corner_layers.br,
                                 c.merge_config.held_key_colors, c.merge_config.held_hide)
           /\ stderr' = IF missing_corners(c) # {}
                        THEN <<"Warning: Layer not found, using empty">> ELSE <<>>
    /\ pc' = "merged"
    /\ UNCHANGED <<result, exit_code>>
    /\ MergeFrame

MergeNext == MergeCenterMissing \/ MergePackage \/ MergeLegacy

SpecMerge == MergeInit /\ [][MergeNext]_vars

(***************************************************************************)
(* Properties.                                                             *)
(***************************************************************************)
NumLines == Len(lines)

BlockIndex == 1..Len(blocks)

LayerKinds == {"layer", "layer_fallback"}

\* C1: formatting the output of format_keymap again returns the same text:
\* format_keymap(format_keymap(t, cols), cols) = format_keymap(t, cols).
C1_Idempotent == (pc = "done" /\ run = 2) => formatted = first_output

\* C2: whenever the rewrite pass replaces the layer invocation at line i by
\* the recorded region layers[layer_idx], that region was recorded for the
\* invocation that starts at line i, and the lines skipped are its lines.
C2_RecordedRegionIsTheInvocation ==
    \A k \in BlockIndex :
        blocks[k].kind = "layer" =>
            /\ blocks[k].src_first = blocks[k].first
            /\ blocks[k].src_last = blocks[k].last

\* the text of the construct that starts at line n and is delimited by ( )
InvocationText(n) == region_text(lines, n, region_end(lines, n, "(", ")"))

\* C3: a construct that starts with ZMK_LAYER( and that parse_zmk_layer
\* rejects is emitted with its original lines unchanged, and only its own
\* lines are consumed for it.
C3_RejectedLayerPassesThrough ==
    \A k \in BlockIndex :
        (/\ blocks[k].kind \in LayerKinds
         /\ ~parse_zmk_layer(InvocationText(blocks[k].first), key_macros).ok)
        => /\ blocks[k].text = InvocationText(blocks[k].first)
           /\ blocks[k].last = region_end(lines, blocks[k].first, "(", ")")

\* the delimiters opened from line n on are never balanced before the end
Unterminated(n, open, close) ==
    /\ region_end(lines, n, open, close) = NumLines - 1
    /\ count(region_text(lines, n, NumLines - 1), open)
         > count(region_text(lines, n, NumLines - 1), close)

\* C4: a layer, block macro or node whose parentheses or braces never
\* balance extends to the last line of the file and is emitted unmodified.
C4_UnterminatedRegionUnmodified ==
    \A k \in BlockIndex :
        (\/ /\ blocks[k].kind \in LayerKinds \cup {"macro"}
            /\ Unterminated(blocks[k].first, "(", ")")
         \/ /\ blocks[k].kind = "node"
            /\ Unterminated(blocks[k].first, "{", "}"))
        => /\ blocks[k].last = NumLines - 1
           /\ blocks[k].text = region_text(lines, blocks[k].first, NumLines - 1)

\* the last line of the span of the continued #define at line n: the first
\* following line that does not end with a backslash (the last line of the
\* file if every line ends with one)
SpanLast(n) ==
    LET stops == {t \in n..(NumLines - 1) : ~ends_with_backslash(lines[t + 1])}
    IN  IF stops = {} THEN NumLines - 1 ELSE CHOOSE t \in stops : \A u \in stops : t <= u

\* line n was copied to the output: the block that consumed it has as many
\* lines as it consumed, and the line at the place of n is line n
LineCopied(n) ==
    \E k \in BlockIndex :
        /\ blocks[k].first <= n /\ n <= blocks[k].last
        /\ LET out == split_lines(blocks[k].text)
           IN  /\ Len(out) = blocks[k].last - blocks[k].first + 1
               /\ out[n - blocks[k].first + 1] = lines[n + 1]

\* C5: every line of every backslash-continued #define span is copied
\* unchanged by the rewrite pass and no recorded layer holds a line of the
\* span.
C5_EverySpanCopied ==
    pc = "done" =>
        \A n \in 0..(NumLines - 1) :
            is_define_start(lines[n + 1]) =>
                /\ \A m \in n..SpanLast(n) : LineCopied(m)
                /\ \A k \in 1..Len(layers) :
                      layers[k].end_line < n \/ layers[k].start_line > SpanLast(n)

\* C6: every line is consumed by exactly one region: the regions follow one
\* another from line 0 to the last line, and the block emitted for a region
\* is computed from the lines of that region.
C6_RegionsPartitionLines ==
    /\ \A k \in BlockIndex :
          /\ blocks[k].first = (IF k = 1 THEN 0 ELSE blocks[k - 1].last + 1)
          /\ blocks[k].first <= blocks[k].last
          /\ blocks[k].last <= NumLines - 1
          /\ blocks[k].src_first = blocks[k].first
          /\ blocks[k].src_last = blocks[k].last
    /\ pc = "done" => (blocks # <<>> /\ blocks[Len(blocks)].last = NumLines - 1)

\* C7: the emitted blocks appear in the order in which the regions they
\* come from appear in the input.
C7_OutputInInputOrder ==
    \A k \in BlockIndex : \A m \in BlockIndex :
        k < m => blocks[k].src_first < blocks[m].src_first

\* the cells of the grid rows of one format_zmk_layer call
CallRows(c) == layer_rows(c.bindings, c.cols)

\* C8: the global width is the maximum binding length of all layers, every
\* format_zmk_layer call receives it, and every binding that is not last in
\* its row is emitted in exactly that many characters.
C8_WidthConsistent ==
    pc \in {"rewrite", "done"} =>
        /\ global_width = max_binding_len(all_bindings(layers))
        /\ \A k \in 1..Len(calls) :
              /\ calls[k].global_width = <<global_width>>
              /\ \A r \in 1..Len(CallRows(calls[k])) :
                 \A j \in 1..(Len(CallRows(calls[k])[r]) - 1) :
                    str_len(formatted_keys(CallRows(calls[k])[r], global_width)[j])
                        = global_width

\* the lines of the text returned by the call: the opening line, one line
\* per row, and the closing line
GridLines == split_lines(formatted)

GridCall == calls[1]

\* the number of rows of n bindings in rows of c columns
RowCount(n, c) == (n + c - 1) \div c

\* C9: format_zmk_layer puts the bindings in rows of exactly cols bindings,
\* only the last row may be shorter, and reading the emitted rows from top to
\* bottom and left to right gives the bindings in source order, each once:
\* binding k is in row k div cols at column k mod cols.
C9_RowsPartitionBindings ==
    pc = "grid_done" =>
        LET bs == GridCall.bindings
            c == GridCall.cols
            rows == [r \in 1..RowCount(Len(bs), c) |->
                        tokenize(strip(GridLines[r + 1]), key_macros)]
        IN  /\ Len(GridLines) = (IF bs = <<>> THEN 1 ELSE RowCount(Len(bs), c)) + 2
            /\ \A r \in 1..Len(rows) :
                  IF r < Len(rows) THEN Len(rows[r]) = c
                  ELSE Len(rows[r]) \in 1..c
            /\ \A k \in 0..(Len(bs) - 1) :
                  rows[(k \div c) + 1][(k % c) + 1] = bs[k + 1]

\* several rows were emitted and the last one is shorter
C9_Witness ==
    /\ pc = "grid_done"
    /\ Len(GridCall.bindings) > GridCall.cols
    /\ Len(GridCall.bindings) % GridCall.cols # 0
    /\ GridCall.cols > 1

\* C10: in every emitted row the last binding is emitted as it is and
\* nothing follows it: no row ends with padding.
C10_NoTrailingPadding ==
    pc = "grid_done" =>
        LET rows == CallRows(GridCall)
        IN  \A r \in 1..Len(rows) :
               LET line == GridLines[r + 1]
                   last == rows[r][Len(rows[r])]
               IN  /\ Len(line) >= Len(last)
                   /\ SubSeq(line, Len(line) - Len(last) + 1, Len(line)) = last
                   /\ line[Len(line)] \notin WS

\* a row of several bindings whose last binding is shorter than the width
C10_Witness ==
    /\ pc = "grid_done"
    /\ GridCall.global_width # NoWidth
    /\ \E r \in 1..Len(CallRows(GridCall)) :
          LET row == CallRows(GridCall)[r]
          IN  /\ Len(row) > 1
              /\ str_len(row[Len(row)]) < GridCall.global_width[1]

\* the number of spaces a line starts with
LeadingSpaces(line) == skip_class(line, 1, {" "}) - 1

\* the width format_zmk_layer works with: the argument, or without one the
\* longest binding of the layer
GridWidth ==
    IF GridCall.global_width # NoWidth THEN GridCall.global_width[1]
    ELSE max_binding_len(GridCall.bindings)

\* C11: with width W every row of exactly cols bindings starts after 4
\* spaces and every shorter row after 4 + 3 * (W + 1) spaces.
C11_RowIndent ==
    pc = "grid_done" =>
        LET n == Len(GridCall.bindings)
            c == GridCall.cols
        IN  \A r \in 1..RowCount(n, c) :
               LeadingSpaces(GridLines[r + 1])
                  = (IF r * c <= n THEN 4 ELSE 4 + 3 * (GridWidth + 1))

\* cols=10 and W=7: the row of 10 bindings starts after 4 spaces and the
\* row of 4 bindings after 28
C11_Witness ==
    /\ pc = "grid_done"
    /\ GridCall.cols = 10 /\ GridCall.global_width = <<7>>
    /\ Len(GridCall.bindings) = 14
    /\ LeadingSpaces(GridLines[2]) = 4
    /\ LeadingSpaces(GridLines[3]) = 28

\* the tokenizer loop is at a character of bindings_str
AtChar == pc = "tokenize" /\ scan.pos <= Len(content)

\* the iteration appends the character to the current binding and starts
\* no new binding
CharAppended ==
    /\ scan'.bindings = scan.bindings
    /\ scan'.current = Append(scan.current, content[scan.pos])
    /\ scan'.pos = scan.pos + 1

\* C12: at a parenthesis depth greater than zero no new binding is started:
\* every character, also an '&' or a key macro, is appended to the current
\* binding.
C12_NoSplitInsideParens ==
    [][(AtChar /\ scan.paren_depth > 0) => CharAppended]_vars

\* an '&' inside the parentheses of a binding was read and the text came out
\* as one binding
C12_Witness ==
    /\ pc = "tokenized"
    /\ content # <<>>
    /\ content[1] = "&" /\ content[Len(content)] = ")"
    /\ \E p \in 2..Len(content) :
          /\ content[p] = "&"
          /\ count(SubSeq(content, 1, p), "(") > count(SubSeq(content, 1, p), ")")
    /\ scan.bindings = <<content>>

\* C20: a new binding is started at a character other than '&' only when
\* the depth is zero and a key macro starts there that is followed by a
\* space, a tab, a newline or the end of the text; otherwise the character
\* is appended to the current binding.
C20_MacroSplitNeedsBoundary ==
    [][(AtChar /\ content[scan.pos] # "&") =>
          \/ CharAppended
          \/ /\ scan.paren_depth = 0
             /\ \E m \in key_macros :
                   /\ startswith_at(content, scan.pos, m)
                   /\ \/ scan.pos + Len(m) > Len(content)
                      \/ content[scan.pos + Len(m)] \in {" ", "\t", NL}
                   /\ scan'.current = m
                   /\ scan'.pos = scan.pos + Len(m)]_vars

\* "Xk X": the X before k was appended, the X at the end started a binding
C20_Witness ==
    /\ pc = "tokenized"
    /\ content = <<"X", "k", " ", "X">>
    /\ scan.bindings = << <<"X", "k">>, <<"X">> >>

\* the position after the blanks that follow position p
AfterBlanks(s, p) == skip_class(s, p + 1, {" ", "\t"})

\* a // comment follows position p on the same line
CommentFollows(s, p) ==
    LET q == AfterBlanks(s, p)
    IN  q + 1 <= Len(s) /\ s[q] = "/" /\ s[q + 1] = "/"

\* that comment, up to the end of its line
CommentAfter(s, p) ==
    LET q == AfterBlanks(s, p)
    IN  SubSeq(s, q, skip_class(s, q, {t \in PropAlphabet \cup {" ", "n", "o", "t", "e"} :
                                         t # NL}) - 1)

\* the text c occurs in s
Contains(s, c) == \E j \in 1..Len(s) : startswith_at(s, j, c)

\* C13: when the ';' that closes a property is followed on the same line by
\* a // comment, the comment is part of that same property in the output;
\* "a < 1 2 >; // note\nb (1,2);" gives two properties and the first carries
\* the comment.
C13_CommentStaysWithProperty ==
    pc = "properties_done" =>
        /\ \A k \in 1..Len(scan.properties) :
              (scan.closes[k] > 0 /\ CommentFollows(content, scan.closes[k]))
              => Contains(scan.properties[k], CommentAfter(content, scan.closes[k]))
        /\ content = CommentedList =>
              /\ Len(scan.properties) = 2
              /\ Contains(scan.properties[1], <<"/", "/", " ", "n", "o", "t", "e">>)

\* the property loop is at a character of content
AtPropChar == pc = "properties" /\ scan.pos <= Len(content)

\* the iteration appends the character to current and closes nothing
PropCharAppended ==
    /\ scan'.current = Append(scan.current, content[scan.pos])
    /\ scan'.properties = scan.properties

\* C18: a ';' closes the current property only when both depths are zero
\* and no comment is open; inside a comment every character is appended as
\* it is and changes no depth, and only a newline ends the comment.
C18_SemicolonClosesAtDepthZero ==
    [][AtPropChar =>
          /\ ~PropCharAppended =>
                /\ content[scan.pos] = ";"
                /\ scan.angle_depth = 0 /\ scan.paren_depth = 0
                /\ ~scan.in_comment
          /\ scan.in_comment =>
                /\ PropCharAppended
                /\ scan'.angle_depth = scan.angle_depth
                /\ scan'.paren_depth = scan.paren_depth
                /\ scan'.in_comment = (content[scan.pos] # NL)]_vars

\* "//;" and "(;)": a ';' in a comment and a ';' in parentheses were read
\* and closed nothing
C18_Witness ==
    /\ pc = "properties_done"
    /\ content \in {<<"/", "/", ";">>, <<"(", ";", ")">>}
    /\ Len(scan.properties) = 1
    /\ scan.closes = <<0>>

\* C14: when the input file does not exist, main writes an error message,
\* exits with status 1 and no file is created or changed.
C14_MissingFileExitsWithOne ==
    [][(pc = "main" /\ files[args.file] = None) =>
          /\ Len(stderr') = Len(stderr) + 1
          /\ exit_code' = 1
          /\ pc' = "exited"
          /\ files' = files
          /\ stdout' = stdout]_vars

\* main has exited with 1 although --in-place and --output were given, and
\* neither path exists
C14_Witness ==
    /\ pc = "exited"
    /\ exit_code = 1
    /\ args.in_place /\ args.output # NoOutput
    /\ \A q \in Paths : files[q] = None
    /\ Len(stderr) = 1

\* the formatted text is printed by this step
TextPrinted == stdout' = Append(stdout, Append(formatted, NL))

CollectedRegions ==
    {<<entered[k].start_line, entered[k].end_line>> : k \in 1..Len(entered)}

\* the regions for which the rewrite pass took its ZMK_LAYER branch
RewrittenRegions ==
    {<<blocks[k].first, blocks[k].last>> : k \in {j \in BlockIndex : blocks[j].kind \in LayerKinds}}

\* C16: the collection pass starts a layer region at the same lines as the
\* rewrite pass takes its ZMK_LAYER branch, and gives it the same extent.
C16_SameLayerRegions ==
    pc = "done" => CollectedRegions = RewrittenRegions

\* the lines of the assembled output, '\n'.join(result), before the clean-up
AssembledLines == split_lines(join(<<NL>>, result))

\* the lines of ls whose index is in kept, in order
KeptLines(ls, kept) == [j \in 1..Cardinality(kept) |-> ls[Nth(kept, j)]]

\* the number of lines of the run of empty lines that line a of ls is in
BlankRunLength(ls, a) ==
    LET first == Min({b \in 1..a : \A c \in b..a : ls[c] = <<>>})
        last == Max({b \in a..Len(ls) : \A c \in a..b : ls[c] = <<>>})
    IN  last - first + 1

\* C17: every run of 3 or more consecutive blank lines of the assembled
\* output is replaced by one blank line and every shorter run is left as it
\* is.
C17_RunsOfThreeBlankLines ==
    pc = "done" =>
        LET ls == AssembledLines
            dropped(a) == /\ ls[a] = <<>>
                          /\ BlankRunLength(ls, a) >= 3
                          /\ a > 1 /\ ls[a - 1] = <<>>
        IN  split_lines(formatted) = KeptLines(ls, {a \in 1..Len(ls) : ~dropped(a)})

\* C17 (amended): every run of 3 or more consecutive newline characters of
\* the assembled output is replaced by two and shorter runs are left as they
\* are: an empty line is removed exactly when the line before it is empty
\* too and it is neither the second nor the last line of the text.
C17_RunsOfThreeNewlines ==
    pc = "done" =>
        LET ls == AssembledLines
            dropped(a) == /\ ls[a] = <<>>
                          /\ a >= 3 /\ a < Len(ls)
                          /\ ls[a - 1] = <<>>
        IN  split_lines(formatted) = KeptLines(ls, {a \in 1..Len(ls) : ~dropped(a)})

\* two empty lines between two lines with text became one
C17_Witness ==
    /\ pc = "done"
    /\ Len(AssembledLines) = 4
    /\ AssembledLines[1] # <<>> /\ AssembledLines[4] # <<>>
    /\ AssembledLines[2] = <<>> /\ AssembledLines[3] = <<>>
    /\ split_lines(formatted) = <<AssembledLines[1], <<>>, AssembledLines[4]>>

\* opening minus closing delimiters over lines s..e
Balance(s, e, open, close) ==
    count(region_text(lines, s, e), open) - count(region_text(lines, s, e), close)

\* e is the first line from s on at which the balance is no longer
\* positive, or the last line of the file if there is no such line
IsExtent(s, e, open, close) ==
    /\ s <= e /\ e <= NumLines - 1
    /\ \A d \in s..(e - 1) : Balance(s, d, open, close) > 0
    /\ Balance(s, e, open, close) <= 0 \/ e = NumLines - 1

\* the blocks of the rewrite pass whose extent is computed by a scan
ScannedKinds == {"layer_fallback", "macro", "node"}

\* C19: the extent computed for a region that starts at line s is the
\* smallest e >= s at which the balance of its delimiters over lines s..e is
\* no longer positive, or the last line; s <= e <= n-1 and the next region
\* starts at e+1.
C19_ExtentIsFirstBalancedLine ==
    /\ \A k \in 1..Len(entered) :
          /\ IsExtent(entered[k].start_line, entered[k].end_line, "(", ")")
          /\ k < Len(entered) => entered[k + 1].start_line > entered[k].end_line
    /\ pc = "collect" /\ entered # <<>> => i > entered[Len(entered)].end_line
    /\ \A k \in BlockIndex :
          blocks[k].kind \in ScannedKinds =>
             /\ IF blocks[k].kind = "node"
                THEN IsExtent(blocks[k].first, blocks[k].last, "{", "}")
                ELSE IsExtent(blocks[k].first, blocks[k].last, "(", ")")
             /\ k < Len(blocks) => blocks[k + 1].first = blocks[k].last + 1
             /\ (k = Len(blocks) /\ pc = "rewrite") => i = blocks[k].last + 1

\* a layer region of several lines that the collection pass has closed
\* before the last line, and a node of several lines that the rewrite pass
\* has closed at the line that holds its closing brace
C19_Witness ==
    /\ pc = "done"
    /\ \E k \in 1..Len(entered) :
          /\ entered[k].end_line > entered[k].start_line
          /\ entered[k].end_line < NumLines - 1
    /\ \E k \in BlockIndex :
          /\ blocks[k].kind = "node"
          /\ blocks[k].last > blocks[k].first
          /\ Balance(blocks[k].first, blocks[k].last, "{", "}") = 0

\* C21: a key macro starts a new binding only at the start of a word: at a
\* character other than '&' that is preceded by a character other than
\* whitespace (XXX inside FOO_XXX) the character is appended to the current
\* binding and no binding is started.
C21_MacroSplitNeedsWordStart ==
    [][(AtChar /\ content[scan.pos] # "&" /\ scan.pos > 1
          /\ content[scan.pos - 1] \notin WS) => CharAppended]_vars

\* the bindings bs[j..] stand in s from position k on in this order, each
\* one whole, with nothing but whitespace before, between and after them
RECURSIVE BindingsCover(_, _, _, _)
BindingsCover(s, k, bs, j) ==
    LET q == skip_ws(s, k)
    IN  IF j > Len(bs) THEN q = Len(s) + 1
        ELSE /\ bs[j] # <<>>
             /\ startswith_at(s, q, bs[j])
             /\ BindingsCover(s, q + Len(bs[j]), bs, j + 1)

\* the characters of s that are not whitespace, in order
NonBlank(s) == SelectSeq(s, LAMBDA t : t \notin WS)

\* C22: the tokenizer loses no content: the returned bindings are the
\* binding text cut at binding boundaries, in order, with only the
\* whitespace at the boundaries left out, so every character that is not
\* whitespace is in exactly one binding and in source order.
C22_NoContentLost ==
    pc = "tokenized" =>
        /\ BindingsCover(content, 1, scan.bindings, 1)
        /\ NonBlank(join(<<>>, scan.bindings)) = NonBlank(content)

\* three bindings were cut, at a key macro and at an '&', and the space
\* before the key macro is the only character in none of them
C22_Witness ==
    /\ pc = "tokenized"
    /\ Len(scan.bindings) = 3
    /\ \E j \in 2..3 : scan.bindings[j] \in key_macros
    /\ \E k \in 1..Len(content) : content[k] = " "
    /\ Len(join(<<>>, scan.bindings)) < Len(content)

\* the text that follows the last ')' on the lines consumed for block k
TextAfterInvocation(k) ==
    LET consumed == region_text(lines, blocks[k].first, blocks[k].last)
    IN  IF last_index(consumed, ")") = 0 THEN <<>>
        ELSE strip(SubSeq(consumed, last_index(consumed, ")") + 1, Len(consumed)))

\* C23: text on the lines of a layer or block-macro region that stands
\* after the final ')' of the invocation is preserved: it is part of the
\* block emitted for the region.
C23_TextAfterInvocationKept ==
    \A k \in BlockIndex :
        blocks[k].kind \in LayerKinds \cup {"macro"}
        => Contains(blocks[k].text, TextAfterInvocation(k))

\* the arguments of the one format_zmk_macro_block call
BlockCall == calls[1]

\* the body as the function reads it: stripped
BlockBody == strip(BlockCall.content)

\* KIND(name,
BlockHead == <<BlockCall.macro_type, "(">> \o BlockCall.name \o <<",">>

BlockLines == split_lines(formatted)

\* the number of output lines taken by the properties k, k+1, ...
RECURSIVE LinesFrom(_, _)
LinesFrom(props, k) ==
    IF k > Len(props) THEN 0
    ELSE count(props[k], NL) + 1 + LinesFrom(props, k + 1)

\* the output line on which property k starts: the properties fill the
\* lines before the closing ')'
FirstLineOf(k) == Len(BlockLines) - LinesFrom(scan.properties, k)

\* C25: the first line of every property is indented by 4 spaces and every
\* continuation line of a multi-line property is indented deeper than the
\* first line of that property.
C25_ContinuationIndentedDeeper ==
    (pc = "block_done" /\ scan.properties # <<>>) =>
        \A k \in 1..Len(scan.properties) :
            /\ LeadingSpaces(BlockLines[FirstLineOf(k)]) = 4
            /\ \A j \in 1..count(scan.properties[k], NL) :
                  LeadingSpaces(BlockLines[FirstLineOf(k) + j]) > 4

\* a property is a bare comment: each of its lines is empty or starts with //
IsBareComment(prop) ==
    \A j \in 1..Len(split_lines(prop)) :
        LET line == strip(split_lines(prop)[j])
        IN  line = <<>> \/ startswith(line, <<"/", "/">>)

\* the last character of prop stands inside a // comment
EndsInComment(prop) ==
    LET last == split_lines(prop)[Len(split_lines(prop))]
    IN  \E j \in 1..(Len(last) - 1) : startswith_at(last, j, <<"/", "/">>)

\* C26: every emitted property is trimmed of leading and trailing
\* whitespace and ends with a ';' that terminates its statement (a ';'
\* outside a comment), unless the property is a bare // comment.
C26_PropertiesTrimmedAndTerminated ==
    pc = "block_done" =>
        \A k \in 1..Len(scan.properties) :
            LET prop == scan.properties[k]
            IN  /\ strip(prop) = prop
                /\ IsBareComment(prop) \/ (endswith(prop, ";") /\ ~EndsInComment(prop))

\* C27: when no property is found and no behavior-type tag was extracted,
\* the result is 'KIND(name, body)' with the body as it was given: nothing
\* is added to it, no line break either.
C27_EmptyBlockOnOneLine ==
    (/\ pc = "block_done"
     /\ scan.properties = <<>>
     /\ scan.behavior_type = None)
    => /\ formatted = BlockHead \o <<" ">> \o BlockCall.content \o <<")">>
       /\ count(formatted, NL) = count(BlockCall.content, NL)

\* the body ";;" of a ZMK_HOLD_TAP and the empty body of a ZMK_BEHAVIOR
\* came back on the line of the name
C27_Witness ==
    /\ pc = "block_done"
    /\ scan.properties = <<>>
    /\ \/ BlockCall.macro_type = "ZMK_HOLD_TAP" /\ content = <<";", ";">>
             /\ formatted = <<"ZMK_HOLD_TAP", "(", "m", ",", " ", ";", ";", ")">>
       \/ BlockCall.macro_type = "ZMK_BEHAVIOR" /\ content = <<>>
             /\ formatted = <<"ZMK_BEHAVIOR", "(", "m", ",", " ", ")">>

\* out is line with its trailing whitespace removed and nothing else changed
OnlyTrailingRemoved(line, out) ==
    /\ Len(out) <= Len(line)
    /\ SubSeq(line, 1, Len(out)) = out
    /\ \A j \in (Len(out) + 1)..Len(line) : line[j] \in WS
    /\ out = <<>> \/ out[Len(out)] \notin WS

AtLine == pc \in {"collect", "rewrite"} /\ i < Len(lines)

\* the step is one iteration of a loop that strictly advances the index
\* and does not run past the end
LoopAdvances ==
    /\ AtLine => (pc' = pc /\ i' > i /\ i' <= Len(lines))
    /\ AtChar => (pc' = pc /\ scan'.pos > scan.pos /\ scan'.pos <= Len(content) + 1)

\* C29: the collection pass, the rewrite pass and the tokenizer loop
\* terminate: every iteration, in every branch, strictly advances the line
\* index or the character index, and the index never passes the end of the
\* input, so a loop over n lines or characters makes at most n iterations.
C29_LoopsTerminate == [][LoopAdvances]_vars

\* a run went through a #define span of several lines and a layer in both
\* line loops and ended, or a tokenizer loop jumped over a key macro and
\* ended
C29_Witness ==
    \/ /\ pc = "done"
       /\ entered # <<>>
       /\ \E k \in BlockIndex : blocks[k].kind = "define" /\ blocks[k].last > blocks[k].first
       /\ \E k \in BlockIndex : blocks[k].kind = "layer"
    \/ /\ pc = "tokenized"
       /\ \E j \in 1..Len(scan.bindings) : scan.bindings[j] \in key_macros
       /\ scan.pos = Len(content) + 1

\* the arguments of the merge
MergeCall == calls[1]

\* the keys of the center layer
CenterKeys == MergeCall.keymap.layers[MergeCall.center_layer]

\* the keys of the layer merged that the package function returned
MergedKeys == result.layers["merged"]

\* field f of merged key n; the bare string "" stands for a key without fields
MergedField(n, f) ==
    IF MergedKeys[n].def[f] = <<"">> THEN Absent ELSE MergedKeys[n].def[f]

\* what key n of the corner layer f gives: its tap value, and nothing if the
\* corner is unset, its layer is not in the keymap or has no key n
CornerGives(n, f) ==
    LET name == MergeCall.corner_layers[f]
    IN  IF name = <<>> THEN Absent
        ELSE IF name[1] \notin DOMAIN MergeCall.keymap.layers THEN Absent
        ELSE IF n > Len(MergeCall.keymap.layers[name[1]]) THEN Absent
        ELSE LET key == MergeCall.keymap.layers[name[1]][n]
                 tap == IF key.form = "none" \/ key.type = <<"trans">> THEN ""
                        ELSE IF key.t # Absent THEN key.t[1]
                        ELSE IF key.tap # Absent THEN key.tap[1] ELSE ""
             IN  IF tap = "" THEN Absent ELSE <<tap>>

\* one layer named merged with as many keys as the center layer
OneMergedLayer ==
    /\ DOMAIN result.layers = {"merged"}
    /\ Len(MergedKeys) = Len(CenterKeys)

\* t, s and h of merged key n are those of key n of the center layer
CenterLegendKept(n) ==
    /\ MergedField(n, "t") \in {Absent, CenterKeys[n].t, CenterKeys[n].tap}
    /\ MergedField(n, "s") \in {Absent, CenterKeys[n].s}
    /\ MergedField(n, "h") \in {Absent, CenterKeys[n].h}

\* the four corners of merged key n are what the corner layers give
CornersKept(n) ==
    \A f \in {"tl", "tr", "bl", "br"} : MergedField(n, f) = CornerGives(n, f)

\* position n (counted from 1) is listed in held_key_colors
IsHeld(n) == (n - 1) \in DOMAIN MergeCall.merge_config.held_key_colors

\* C30 as stated: the result has one layer merged with as many keys as the
\* center layer; key i takes t, s, h and type only from key i of the center
\* layer and its corners only from the tap values of key i of the corner
\* layers; the legacy function returns the same.
C30_MergedFromLayersOnly ==
    /\ pc \in {"merge_legacy", "merged"} =>
          /\ OneMergedLayer
          /\ \A n \in 1..Len(MergedKeys) :
                /\ CenterLegendKept(n)
                /\ MergedField(n, "type") \in {Absent, CenterKeys[n].type}
                /\ CornersKept(n)
    /\ pc = "merged" => first_output = result

\* C30 amended: as stated, except that at a position listed in
\* held_key_colors the type is "held-" followed by the colour configured for
\* the position, whatever the type of the center key.
C30_MergedFromLayersAndHeldKeys ==
    /\ pc \in {"merge_legacy", "merged"} =>
          /\ OneMergedLayer
          /\ \A n \in 1..Len(MergedKeys) :
                /\ CenterLegendKept(n)
                /\ IF IsHeld(n)
                   THEN MergedField(n, "type")
                          = <<"held-" \o MergeCall.merge_config.held_key_colors[n - 1]>>
                   ELSE MergedField(n, "type") \in {Absent, CenterKeys[n].type}
                /\ CornersKept(n)
    /\ pc = "merged" => first_output = result

\* both functions have returned for a center layer of two keys with the
\* first key held, an unknown tl layer and a tr layer of one key: the first
\* merged key has the held type and a tr legend, the second has no tr
\* legend and the bl legend of the layer sym
C30_Witness ==
    /\ pc = "merged"
    /\ Len(CenterKeys) = 2
    /\ MergeCall.corner_layers = Corners(<<"gone">>, <<"nav">>, <<"sym">>, <<>>)
    /\ Len(MergeCall.keymap.layers["nav"]) = 1
    /\ IsHeld(1)
    /\ MergedField(1, "type") = <<"held-tl">>
    /\ MergedField(1, "tr") # Absent
    /\ MergedField(2, "tr") = Absent
    /\ MergedField(2, "bl") = <<"Z">>
    /\ MergedField(2, "t") = <<"A">>

====
